---- MODULE Spec2Model ----
(***************************************************************************)
(* Virtual machine configuration reconciliation of the vSphere provider:   *)
(* expansion of resource data into a VirtualMachineConfigSpec, flattening  *)
(* of a live VirtualMachineConfigInfo into resource data, restart          *)
(* classification, version gating and the old-vs-new configuration diff    *)
(* (src/vsphere/virtual_machine_config_structure.go); selection of the     *)
(* guest IP addresses (src/vsphere/virtual_machine_guest_structure.go);    *)
(* the host vNIC resource (src/vsphere/resource_vsphere_vnic.go); the      *)
(* virtual machine snapshot resource (src/unnamed/part_002); and the       *)
(* dynamic data source (src/vsphere/data_source_vsphere_dynamic.go).       *)
(*                                                                         *)
(* Every integer of the model is far inside int32/int64, so the int32()    *)
(* and int64() conversions of the source never truncate here.              *)
(***************************************************************************)
EXTENDS Integers, Sequences, FiniteSets, TLC

VARIABLES
    d,       \* the schema.ResourceData of the running operation
    d0,      \* the ResourceData as it was when the operation was entered
    client,  \* the connected endpoint: its version (viapi.VSphereVersion),
             \* or how its remote calls end
    live,    \* the remote object: the live machine's VirtualMachineConfigInfo,
             \* its guest report, the host of a vNIC, the tagged inventory
    iter,    \* the orders in which Go ranges over maps and schema.Set lists
    pc,      \* position of the operation
    obj,     \* the value the operation has built or returned so far
    res      \* further results of the operation (error, changed, ...)

vars == <<d, d0, client, live, iter, pc, obj, res>>

-----------------------------------------------------------------------------
(* Bounds of the model *)

MaxCPU == 3
MaxMem == 3
MaxKeys == 2
MaxBuild == 1

-----------------------------------------------------------------------------
(* Pointers: a nil pointer is the empty sequence, a pointer to x is <<x>>. *)

Nil == <<>>
Ptr(x) == <<x>>
Deref(p) == p[1]

EmptyMap == <<>>

-----------------------------------------------------------------------------
(* schema.ResourceData: the prior state, the merged view of state and      *)
(* planned diff (config), and the values written with d.Set in this        *)
(* operation (set), which the reads see first.                             *)

\* statement sequencing: x is computed once, then F runs on its value
Then(x, F(_)) == CHOOSE out \in {F(v) : v \in {x}} : TRUE

Get(rd, key) == IF key \in DOMAIN rd.set THEN rd.set[key] ELSE rd.config[key]

GetChange(rd, key) == <<rd.state[key], Get(rd, key)>>

HasChange(rd, key) == GetChange(rd, key)[1] # GetChange(rd, key)[2]

Set(rd, key, value) == [rd EXCEPT !.set = (key :> value) @@ @]

\* d.Set with a pointer argument: nil records the zero value of the key
SetPtrValue(rd, key, p, zero) == Set(rd, key, IF p = Nil THEN zero ELSE Deref(p))

\* oldData.State() followed by resource.Data(state): the written values
\* become the state, and no diff is pending
ReloadState(rd) ==
    Then(rd, LAMBDA data :
        LET merged == [k \in DOMAIN data.config |-> Get(data, k)]
        IN  [id |-> data.id, state |-> merged, config |-> merged, set |-> EmptyMap])

\* structure.GetBool: always a pointer, false when the key is unspecified
GetBool(rd, key) == Ptr(Get(rd, key))

\* structure.SetBoolPtr / structure.SetInt64Ptr: a nil pointer writes nothing
SetBoolPtr(rd, key, p) == IF p = Nil THEN rd ELSE Set(rd, key, Deref(p))

SetInt64Ptr(rd, key, p) == IF p = Nil THEN rd ELSE Set(rd, key, Deref(p))

\* structure.GetInt64PtrEmptyZero: d.GetOk misses on the zero value
GetInt64PtrEmptyZero(rd, key) ==
    LET i == Get(rd, key) IN IF i = 0 THEN Ptr(0) ELSE Ptr(i)

-----------------------------------------------------------------------------
(* getWithRestart / getBoolWithRestart: operators on ResourceData return   *)
(* the ResourceData after their writes (d) and the value read (val).       *)

getWithRestart(rd, key) ==
    [d   |-> IF HasChange(rd, key) THEN Set(rd, "reboot_required", TRUE) ELSE rd,
     val |-> Get(rd, key)]

getBoolWithRestart(rd, key) ==
    [d   |-> IF HasChange(rd, key) THEN Set(rd, "reboot_required", TRUE) ELSE rd,
     val |-> GetBool(rd, key)]

-----------------------------------------------------------------------------
(* Change classifier *)

expandCPUCountConfig_HotAddNew(rd) ==
    LET occ == GetChange(rd, "num_cpus")[1]
        ncc == GetChange(rd, "num_cpus")[2]
        currentHotAdd == GetChange(rd, "cpu_hot_add_enabled")[2]
        currentHotRemove == GetChange(rd, "cpu_hot_remove_enabled")[2]
    IN  [d   |-> IF occ < ncc
                 THEN IF ~currentHotAdd THEN Set(rd, "reboot_required", TRUE) ELSE rd
                 ELSE IF occ > ncc
                 THEN IF ~currentHotRemove THEN Set(rd, "reboot_required", TRUE) ELSE rd
                 ELSE rd,
         val |-> ncc]

expandCPUCountConfig_RemoveByHotAdd(rd) ==
    LET occ == GetChange(rd, "num_cpus")[1]
        ncc == GetChange(rd, "num_cpus")[2]
        currentHotAdd == GetChange(rd, "cpu_hot_add_enabled")[1]
    IN  [d   |-> IF occ # ncc /\ ~currentHotAdd
                 THEN Set(rd, "reboot_required", TRUE)
                 ELSE rd,
         val |-> ncc]

expandCPUCountConfig(rd) ==
    LET occ == GetChange(rd, "num_cpus")[1]
        ncc == GetChange(rd, "num_cpus")[2]
        currentHotAdd == GetChange(rd, "cpu_hot_add_enabled")[1]
        currentHotRemove == GetChange(rd, "cpu_hot_remove_enabled")[1]
        oldCPUCount == occ
        newCPUCount == ncc
    IN  [d   |-> IF oldCPUCount < newCPUCount
                 THEN IF ~currentHotAdd THEN Set(rd, "reboot_required", TRUE) ELSE rd
                 ELSE IF oldCPUCount > newCPUCount
                 THEN IF ~currentHotRemove THEN Set(rd, "reboot_required", TRUE) ELSE rd
                 ELSE rd,
         val |-> newCPUCount]

expandMemorySizeConfig_DecreaseGated(rd) ==
    LET om == GetChange(rd, "memory")[1]
        nm == GetChange(rd, "memory")[2]
        currentHotAdd == GetChange(rd, "memory_hot_add_enabled")[1]
    IN  [d   |-> IF om # nm /\ ~currentHotAdd
                 THEN Set(rd, "reboot_required", TRUE)
                 ELSE rd,
         val |-> nm]

expandMemorySizeConfig(rd) ==
    LET om == GetChange(rd, "memory")[1]
        nm == GetChange(rd, "memory")[2]
        currentHotAdd == GetChange(rd, "memory_hot_add_enabled")[1]
        oldMem == om
        newMem == nm
    IN  [d   |-> IF oldMem < newMem
                 THEN IF ~currentHotAdd THEN Set(rd, "reboot_required", TRUE) ELSE rd
                 ELSE IF oldMem > newMem
                 THEN Set(rd, "reboot_required", TRUE)
                 ELSE rd,
         val |-> newMem]

-----------------------------------------------------------------------------
(* The resource schema (schemaVirtualMachineConfigSpec and                 *)
(* schemaVirtualMachineResourceAllocation): the zero value of every key,   *)
(* which is what a ResourceData built from an empty InstanceState reads,   *)
(* and the schema defaults a planned configuration starts from.            *)

ZeroValues ==
    [boot_delay |-> 0, efi_secure_boot_enabled |-> FALSE,
     boot_retry_delay |-> 0, boot_retry_enabled |-> FALSE,
     enable_disk_uuid |-> FALSE, vbs_enabled |-> FALSE, vvtd_enabled |-> FALSE,
     hv_mode |-> "", ept_rvi_mode |-> "", enable_logging |-> FALSE,
     sync_time_with_host |-> FALSE, sync_time_with_host_periodically |-> FALSE,
     tools_upgrade_policy |-> "",
     run_tools_scripts_after_power_on |-> FALSE,
     run_tools_scripts_after_resume |-> FALSE,
     run_tools_scripts_before_guest_reboot |-> FALSE,
     run_tools_scripts_before_guest_shutdown |-> FALSE,
     run_tools_scripts_before_guest_standby |-> FALSE,
     latency_sensitivity |-> "",
     name |-> "", num_cpus |-> 0, num_cores_per_socket |-> 0,
     cpu_hot_add_enabled |-> FALSE, cpu_hot_remove_enabled |-> FALSE,
     nested_hv_enabled |-> FALSE, cpu_performance_counters_enabled |-> FALSE,
     memory |-> 0, memory_reservation_locked_to_max |-> FALSE,
     memory_hot_add_enabled |-> FALSE, swap_placement_policy |-> "",
     annotation |-> "", guest_id |-> "", alternate_guest_name |-> "",
     firmware |-> "", extra_config |-> EmptyMap,
     extra_config_reboot_required |-> FALSE,
     vapp |-> <<>>, vapp_transport |-> <<>>,
     change_version |-> "", uuid |-> "", storage_policy_id |-> "",
     hardware_version |-> 0,
     cpu_share_level |-> "", cpu_share_count |-> 0,
     cpu_limit |-> 0, cpu_reservation |-> 0,
     memory_share_level |-> "", memory_share_count |-> 0,
     memory_limit |-> 0, memory_reservation |-> 0,
     reboot_required |-> FALSE, enable_hidden_properties |-> FALSE]

SchemaDefaults ==
    [ZeroValues EXCEPT
        !.boot_retry_delay = 10000,
        !.sync_time_with_host = TRUE,
        !.tools_upgrade_policy = "manual",
        !.run_tools_scripts_after_power_on = TRUE,
        !.run_tools_scripts_after_resume = TRUE,
        !.run_tools_scripts_before_guest_shutdown = TRUE,
        !.run_tools_scripts_before_guest_standby = TRUE,
        !.latency_sensitivity = "normal",
        !.num_cpus = 1, !.num_cores_per_socket = 1, !.memory = 1024,
        !.swap_placement_policy = "inherit",
        !.firmware = "bios",
        !.extra_config_reboot_required = TRUE,
        !.cpu_share_level = "normal", !.memory_share_level = "normal",
        !.cpu_limit = -1, !.memory_limit = -1]

\* a recorded virtual machine of the provider: the defaults, named and typed
RecordedVM ==
    [SchemaDefaults EXCEPT
        !.name = "vm", !.guest_id = "otherGuest64", !.hv_mode = "hvAuto",
        !.ept_rvi_mode = "automatic", !.uuid = "vm-1",
        !.cpu_share_count = 1000, !.memory_share_count = 10240]

\* schema.Resource.Data(&terraform.InstanceState{}) followed by SetId
EmptyData(id) ==
    [id |-> id, state |-> ZeroValues, config |-> ZeroValues, set |-> EmptyMap]

CPUCounts == 1..MaxCPU
MemSizes == {1024 * i : i \in 1..MaxMem}

-----------------------------------------------------------------------------
(* Version gate.  viapi.VSphereVersion compares major, minor, patch and    *)
(* build in that order; the product is the client's own in every call.     *)

VSphereVersion(major, minor, patch) ==
    [Major |-> major, Minor |-> minor, Patch |-> patch, Build |-> 0]

Newer(v, other) ==
    \/ v.Major > other.Major
    \/ v.Major = other.Major /\ v.Minor > other.Minor
    \/ v.Major = other.Major /\ v.Minor = other.Minor /\ v.Patch > other.Patch
    \/ /\ v.Major = other.Major /\ v.Minor = other.Minor /\ v.Patch = other.Patch
       /\ v.Build > other.Build

Older(v, other) == Newer(other, v)

AtLeast(v, other) == ~Older(v, other)

-----------------------------------------------------------------------------
(* Field codec, expand direction *)

expandVirtualMachineBootOptions_Ungated(rd, version) ==
    LET r == getBoolWithRestart(rd, "efi_secure_boot_enabled")
    IN  [d   |-> r.d,
         val |-> Ptr([BootDelay            |-> Get(rd, "boot_delay"),
                      BootRetryEnabled     |-> GetBool(rd, "boot_retry_enabled"),
                      BootRetryDelay       |-> Get(rd, "boot_retry_delay"),
                      EfiSecureBootEnabled |-> r.val])]

expandVirtualMachineBootOptions(rd, version) ==
    LET base == [BootDelay            |-> Get(rd, "boot_delay"),
                 BootRetryEnabled     |-> GetBool(rd, "boot_retry_enabled"),
                 BootRetryDelay       |-> Get(rd, "boot_retry_delay"),
                 EfiSecureBootEnabled |-> Nil]
        r == getBoolWithRestart(rd, "efi_secure_boot_enabled")
    IN  IF Newer(version, VSphereVersion(6, 5, 0))
        THEN [d |-> r.d, val |-> Ptr([base EXCEPT !.EfiSecureBootEnabled = r.val])]
        ELSE [d |-> rd, val |-> Ptr(base)]

expandVirtualMachineFlagInfo_Ungated(rd, version) ==
    LET r1 == getBoolWithRestart(rd, "enable_disk_uuid")
        r2 == getWithRestart(r1.d, "hv_mode")
        r3 == getWithRestart(r2.d, "ept_rvi_mode")
        r4 == getBoolWithRestart(r3.d, "enable_logging")
        r5 == getBoolWithRestart(r4.d, "vbs_enabled")
        r6 == getBoolWithRestart(r5.d, "vvtd_enabled")
    IN  [d   |-> r6.d,
         val |-> Ptr([DiskUuidEnabled  |-> r1.val, VirtualExecUsage |-> r2.val,
                      VirtualMmuUsage  |-> r3.val, EnableLogging    |-> r4.val,
                      VbsEnabled       |-> r5.val, VvtdEnabled      |-> r6.val])]

expandVirtualMachineFlagInfo(rd, version) ==
    LET r1 == getBoolWithRestart(rd, "enable_disk_uuid")
        r2 == getWithRestart(r1.d, "hv_mode")
        r3 == getWithRestart(r2.d, "ept_rvi_mode")
        r4 == getBoolWithRestart(r3.d, "enable_logging")
        base == [DiskUuidEnabled  |-> r1.val,
                 VirtualExecUsage |-> r2.val,
                 VirtualMmuUsage  |-> r3.val,
                 EnableLogging    |-> r4.val,
                 VbsEnabled       |-> Nil,
                 VvtdEnabled      |-> Nil]
        r5 == getBoolWithRestart(r4.d, "vbs_enabled")
        r6 == getBoolWithRestart(r5.d, "vvtd_enabled")
    IN  IF AtLeast(version, VSphereVersion(6, 7, 0))
        THEN [d   |-> r6.d,
              val |-> Ptr([base EXCEPT !.VbsEnabled = r5.val, !.VvtdEnabled = r6.val])]
        ELSE [d |-> r4.d, val |-> Ptr(base)]

expandToolsConfigInfo_Gate700(rd, version) ==
    LET r1 == getWithRestart(rd, "tools_upgrade_policy")
        r2 == getBoolWithRestart(r1.d, "run_tools_scripts_after_power_on")
        r3 == getBoolWithRestart(r2.d, "run_tools_scripts_after_resume")
        r4 == getBoolWithRestart(r3.d, "run_tools_scripts_before_guest_standby")
        r5 == getBoolWithRestart(r4.d, "run_tools_scripts_before_guest_shutdown")
        r6 == getBoolWithRestart(r5.d, "run_tools_scripts_before_guest_reboot")
        base == [SyncTimeWithHost        |-> GetBool(rd, "sync_time_with_host"),
                 SyncTimeWithHostAllowed |-> Nil,
                 ToolsUpgradePolicy      |-> r1.val,
                 AfterPowerOn            |-> r2.val,
                 AfterResume             |-> r3.val,
                 BeforeGuestStandby      |-> r4.val,
                 BeforeGuestShutdown     |-> r5.val,
                 BeforeGuestReboot       |-> r6.val]
    IN  IF AtLeast(version, VSphereVersion(7, 0, 0))
        THEN [d   |-> r6.d,
              val |-> Ptr([base EXCEPT
                        !.SyncTimeWithHostAllowed = GetBool(r6.d, "sync_time_with_host"),
                        !.SyncTimeWithHost =
                            GetBool(r6.d, "sync_time_with_host_periodically")])]
        ELSE [d |-> r6.d, val |-> Ptr(base)]

expandToolsConfigInfo(rd, version) ==
    LET r1 == getWithRestart(rd, "tools_upgrade_policy")
        r2 == getBoolWithRestart(r1.d, "run_tools_scripts_after_power_on")
        r3 == getBoolWithRestart(r2.d, "run_tools_scripts_after_resume")
        r4 == getBoolWithRestart(r3.d, "run_tools_scripts_before_guest_standby")
        r5 == getBoolWithRestart(r4.d, "run_tools_scripts_before_guest_shutdown")
        r6 == getBoolWithRestart(r5.d, "run_tools_scripts_before_guest_reboot")
        base == [SyncTimeWithHost        |-> GetBool(rd, "sync_time_with_host"),
                 SyncTimeWithHostAllowed |-> Nil,
                 ToolsUpgradePolicy      |-> r1.val,
                 AfterPowerOn            |-> r2.val,
                 AfterResume             |-> r3.val,
                 BeforeGuestStandby      |-> r4.val,
                 BeforeGuestShutdown     |-> r5.val,
                 BeforeGuestReboot       |-> r6.val]
    IN  IF AtLeast(version, VSphereVersion(7, 0, 1))
        THEN [d   |-> r6.d,
              val |-> Ptr([base EXCEPT
                        !.SyncTimeWithHostAllowed = GetBool(r6.d, "sync_time_with_host"),
                        !.SyncTimeWithHost =
                            GetBool(r6.d, "sync_time_with_host_periodically")])]
        ELSE [d |-> r6.d, val |-> Ptr(base)]

\* the four keys fmt.Sprintf builds from the allocation type
AllocationKeys(key) ==
    IF key = "cpu"
    THEN [level |-> "cpu_share_level", count |-> "cpu_share_count",
          limit |-> "cpu_limit", reservation |-> "cpu_reservation"]
    ELSE [level |-> "memory_share_level", count |-> "memory_share_count",
          limit |-> "memory_limit", reservation |-> "memory_reservation"]

expandVirtualMachineResourceAllocation(rd, key) ==
    LET k == AllocationKeys(key)
    IN  Ptr([Limit       |-> GetInt64PtrEmptyZero(rd, k.limit),
             Reservation |-> GetInt64PtrEmptyZero(rd, k.reservation),
             Shares      |-> Ptr([Level  |-> Get(rd, k.level),
                                  Shares |-> Get(rd, k.count)])])

expandLatencySensitivity(rd) == Ptr([Level |-> Get(rd, "latency_sensitivity")])

getMemoryReservationLockedToMax(rd) ==
    LET memory == Get(rd, "memory")
        memoryReservation == Get(rd, "memory_reservation")
        memoryLockMax == Get(rd, "memory_reservation_locked_to_max")
    IN  IF memory # memoryReservation THEN Ptr(FALSE)
        ELSE IF memory = memoryReservation /\ memoryLockMax THEN Ptr(TRUE)
        ELSE Nil

-----------------------------------------------------------------------------
(* extra_config.  Go ranges over a map in an unspecified order: it.old and *)
(* it.new are the orders in which the two loops visit the keys.            *)

InMap(m, k) == k \in DOMAIN m

\* the keys of map m in the order the loop visits them
RangeKeys(m, order) == SelectSeq(order, LAMBDA k : InMap(m, k))

MapSeq(keys, F(_)) == [i \in 1..Len(keys) |-> F(keys[i])]

expandExtraConfig_KeepUnchanged(rd, it) ==
    IF ~HasChange(rd, "extra_config")
    THEN [d |-> rd, val |-> Nil]
    ELSE
        LET old == GetChange(rd, "extra_config")[1]
            newValue == GetChange(rd, "extra_config")[2]
            removed == SelectSeq(RangeKeys(old, it.old), LAMBDA k1 : ~InMap(newValue, k1))
            kept == RangeKeys(newValue, it.new)
        IN  [d   |-> Set(rd, "reboot_required", Get(rd, "extra_config_reboot_required")),
             val |-> MapSeq(removed, LAMBDA k1 : [Key |-> k1, Value |-> ""])
                     \o MapSeq(kept, LAMBDA k1 : [Key |-> k1, Value |-> newValue[k1]])]

\* a variant that ignores extra_config_reboot_required
expandExtraConfig_AlwaysReboot(rd, it) ==
    IF ~HasChange(rd, "extra_config")
    THEN [d |-> rd, val |-> Nil]
    ELSE
        LET old == GetChange(rd, "extra_config")[1]
            newValue == GetChange(rd, "extra_config")[2]
            removed == SelectSeq(RangeKeys(old, it.old), LAMBDA k1 : ~InMap(newValue, k1))
            changed == SelectSeq(RangeKeys(newValue, it.new),
                                 LAMBDA k1 : IF InMap(old, k1)
                                             THEN newValue[k1] # old[k1]
                                             ELSE TRUE)
        IN  [d   |-> Set(rd, "reboot_required", TRUE),
             val |-> MapSeq(removed, LAMBDA k1 : [Key |-> k1, Value |-> ""])
                     \o MapSeq(changed, LAMBDA k1 : [Key |-> k1, Value |-> newValue[k1]])]

expandExtraConfig(rd, it) ==
    IF ~HasChange(rd, "extra_config")
    THEN [d |-> rd, val |-> Nil]
    ELSE
        LET rebootRequired == Get(rd, "extra_config_reboot_required")
            old == GetChange(rd, "extra_config")[1]
            newValue == GetChange(rd, "extra_config")[2]
            \* first loop: keys of old with no equal key in new
            removed == SelectSeq(RangeKeys(old, it.old), LAMBDA k1 : ~InMap(newValue, k1))
            \* second loop: keys of new that are not in old, or are with another value
            changed == SelectSeq(RangeKeys(newValue, it.new),
                                 LAMBDA k1 : IF InMap(old, k1)
                                             THEN newValue[k1] # old[k1]
                                             ELSE TRUE)
        IN  [d   |-> Set(rd, "reboot_required", rebootRequired),
             val |-> MapSeq(removed, LAMBDA k1 : [Key |-> k1, Value |-> ""])
                     \o MapSeq(changed, LAMBDA k1 : [Key |-> k1, Value |-> newValue[k1]])]

-----------------------------------------------------------------------------
(* vApp properties.  vm is the live machine's VirtualMachineConfigInfo.   *)

\* the properties map of the new vapp block, empty without a block
VAppNewMap(rd) ==
    LET newVApps == GetChange(rd, "vapp")[2]
    IN  IF Len(newVApps) > 0 THEN newVApps[1].properties ELSE EmptyMap

MapDelete(m, k) == [x \in DOMAIN m \ {k} |-> m[x]]

VAppEdit_Blank(p, value, userConfigurable) ==
    [Operation |-> "edit",
     Info |-> [Key |-> p.Key, Id |-> p.Id, Value |-> " ",
               UserConfigurable |-> userConfigurable]]

VAppEdit(p, value, userConfigurable) ==
    [Operation |-> "edit",
     Info |-> [Key |-> p.Key, Id |-> p.Id, Value |-> value,
               UserConfigurable |-> userConfigurable]]

RECURSIVE VAppLoop_IgnoreLeftover(_, _, _, _, _)
VAppLoop_IgnoreLeftover(allProperties, i, enableHiddenProperties, newMap, props) ==
    IF i > Len(allProperties)
    THEN [val |-> Ptr([Property |-> props]), err |-> ""]
    ELSE
        LET p == allProperties[i]
            defaultValue == IF p.DefaultValue # "" THEN p.DefaultValue ELSE " "
            value == IF InMap(newMap, p.Id) THEN newMap[p.Id] ELSE defaultValue
        IN  IF enableHiddenProperties
            THEN VAppLoop_IgnoreLeftover(allProperties, i + 1, enableHiddenProperties,
                          MapDelete(newMap, p.Id),
                          Append(props, VAppEdit(p, value, Ptr(TRUE))))
            ELSE IF Deref(p.UserConfigurable)
            THEN VAppLoop_IgnoreLeftover(allProperties, i + 1, enableHiddenProperties,
                          MapDelete(newMap, p.Id),
                          Append(props, VAppEdit(p, value, p.UserConfigurable)))
            ELSE IF InMap(newMap, p.Id)
            THEN [val |-> Nil, err |-> "vApp property with userConfigurable=false"]
            ELSE VAppLoop_IgnoreLeftover(allProperties, i + 1, enableHiddenProperties, newMap, props)

\* the loop over allProperties from index i on, with the edits built so
\* far and what is left of newMap
RECURSIVE VAppLoop(_, _, _, _, _)
VAppLoop(allProperties, i, enableHiddenProperties, newMap, props) ==
    IF i > Len(allProperties)
    THEN IF newMap # EmptyMap
         THEN [val |-> Nil, err |-> "unsupported vApp properties"]
         ELSE [val |-> Ptr([Property |-> props]), err |-> ""]
    ELSE
        LET p == allProperties[i]
            defaultValue == IF p.DefaultValue # "" THEN p.DefaultValue ELSE " "
            value == IF InMap(newMap, p.Id) THEN newMap[p.Id] ELSE defaultValue
        IN  IF enableHiddenProperties
            THEN VAppLoop(allProperties, i + 1, enableHiddenProperties,
                          MapDelete(newMap, p.Id),
                          Append(props, VAppEdit(p, value, Ptr(TRUE))))
            ELSE IF Deref(p.UserConfigurable)
            THEN VAppLoop(allProperties, i + 1, enableHiddenProperties,
                          MapDelete(newMap, p.Id),
                          Append(props, VAppEdit(p, value, p.UserConfigurable)))
            ELSE IF InMap(newMap, p.Id)
            THEN [val |-> Nil, err |-> "vApp property with userConfigurable=false"]
            ELSE VAppLoop(allProperties, i + 1, enableHiddenProperties, newMap, props)

expandVAppConfig(rd, vm) ==
    IF ~HasChange(rd, "vapp")
    THEN [d |-> rd, val |-> Nil, err |-> ""]
    ELSE
        LET rd1 == Set(rd, "reboot_required", TRUE)
            newMap == VAppNewMap(rd)
        IN  IF rd.id = ""
            THEN [d |-> rd1, val |-> Nil,
                  err |-> IF newMap # EmptyMap
                          THEN "vApp properties can only be set on cloned virtual machines"
                          ELSE ""]
            ELSE IF vm.VAppConfig = Nil
            THEN [d |-> rd1, val |-> Nil, err |-> "this VM lacks a vApp configuration"]
            ELSE
                LET r == VAppLoop(Deref(vm.VAppConfig).Property, 1,
                                  Get(rd, "enable_hidden_properties"), newMap, <<>>)
                IN  [d |-> rd1, val |-> r.val, err |-> r.err]

-----------------------------------------------------------------------------
(* Storage policy and hardware version *)

\* spbm.PolicySpecByID: the profile spec list naming the policy
PolicySpecByID(policyID) == <<[ProfileId |-> policyID]>>

expandVirtualMachineProfileSpec(rd) ==
    LET policyID == Get(rd, "storage_policy_id")
    IN  IF policyID # "" THEN PolicySpecByID(policyID) ELSE Nil

\* virtualmachine.GetHardwareVersionID: "vmx-<n>", empty for 0
GetHardwareVersionID(vint) ==
    CASE vint = 0  -> ""
      [] vint = 13 -> "vmx-13"
      [] vint = 14 -> "vmx-14"
      [] vint = 19 -> "vmx-19"
      [] OTHER     -> "vmx-?"

\* virtualmachine.GetHardwareVersionNumber: the number after "vmx-", 0 if none
GetHardwareVersionNumber(vstring) ==
    CASE vstring = "vmx-13" -> 13
      [] vstring = "vmx-14" -> 14
      [] vstring = "vmx-19" -> 19
      [] OTHER              -> 0

-----------------------------------------------------------------------------
(* expandVirtualMachineConfigSpec.  expandVAppConfig runs first; the       *)
(* fields of the composite literal are then evaluated in source order.     *)

\* types.VirtualMachineConfigSpec{}
ZeroSpec ==
    [Name |-> "", GuestId |-> "", AlternateGuestName |-> "", Annotation |-> "",
     Tools |-> Nil, Flags |-> Nil, NumCPUs |-> 0, NumCoresPerSocket |-> 0,
     MemoryMB |-> 0, MemoryHotAddEnabled |-> Nil, CpuHotAddEnabled |-> Nil,
     CpuHotRemoveEnabled |-> Nil, CpuAllocation |-> Nil, MemoryAllocation |-> Nil,
     MemoryReservationLockedToMax |-> Nil, ExtraConfig |-> Nil,
     SwapPlacement |-> "", BootOptions |-> Nil, VAppConfig |-> Nil,
     Firmware |-> "", NestedHVEnabled |-> Nil, VPMCEnabled |-> Nil,
     LatencySensitivity |-> Nil, VmProfile |-> Nil, Version |-> ""]

SpecFields ==
    <<"Name", "GuestId", "AlternateGuestName", "Annotation", "Tools", "Flags",
      "NumCPUs", "NumCoresPerSocket", "MemoryMB", "MemoryHotAddEnabled",
      "CpuHotAddEnabled", "CpuHotRemoveEnabled", "CpuAllocation",
      "MemoryAllocation", "MemoryReservationLockedToMax", "ExtraConfig",
      "SwapPlacement", "BootOptions", "VAppConfig", "Firmware",
      "NestedHVEnabled", "VPMCEnabled", "LatencySensitivity", "VmProfile",
      "Version">>

\* the evaluation of one field of the literal
ExpandField(f, rd, version, it, vappConfig) ==
    CASE f = "Name"                -> [d |-> rd, val |-> Get(rd, "name")]
      [] f = "GuestId"             -> getWithRestart(rd, "guest_id")
      [] f = "AlternateGuestName"  -> getWithRestart(rd, "alternate_guest_name")
      [] f = "Annotation"          -> [d |-> rd, val |-> Get(rd, "annotation")]
      [] f = "Tools"               -> expandToolsConfigInfo(rd, version)
      [] f = "Flags"               -> expandVirtualMachineFlagInfo(rd, version)
      [] f = "NumCPUs"             -> expandCPUCountConfig(rd)
      [] f = "NumCoresPerSocket"   -> getWithRestart(rd, "num_cores_per_socket")
      [] f = "MemoryMB"            -> expandMemorySizeConfig(rd)
      [] f = "MemoryHotAddEnabled" -> getBoolWithRestart(rd, "memory_hot_add_enabled")
      [] f = "CpuHotAddEnabled"    -> getBoolWithRestart(rd, "cpu_hot_add_enabled")
      [] f = "CpuHotRemoveEnabled" -> getBoolWithRestart(rd, "cpu_hot_remove_enabled")
      [] f = "CpuAllocation"       ->
            [d |-> rd, val |-> expandVirtualMachineResourceAllocation(rd, "cpu")]
      [] f = "MemoryAllocation"    ->
            [d |-> rd, val |-> expandVirtualMachineResourceAllocation(rd, "memory")]
      [] f = "MemoryReservationLockedToMax" ->
            [d |-> rd, val |-> getMemoryReservationLockedToMax(rd)]
      [] f = "ExtraConfig"         -> expandExtraConfig(rd, it)
      [] f = "SwapPlacement"       -> getWithRestart(rd, "swap_placement_policy")
      [] f = "BootOptions"         -> expandVirtualMachineBootOptions(rd, version)
      [] f = "VAppConfig"          -> [d |-> rd, val |-> vappConfig]
      [] f = "Firmware"            -> getWithRestart(rd, "firmware")
      [] f = "NestedHVEnabled"     -> getBoolWithRestart(rd, "nested_hv_enabled")
      [] f = "VPMCEnabled"         ->
            getBoolWithRestart(rd, "cpu_performance_counters_enabled")
      [] f = "LatencySensitivity"  -> [d |-> rd, val |-> expandLatencySensitivity(rd)]
      [] f = "VmProfile"           -> [d |-> rd, val |-> expandVirtualMachineProfileSpec(rd)]
      [] f = "Version"             ->
            [d |-> rd, val |-> GetHardwareVersionID(Get(rd, "hardware_version"))]

\* the fields from index i on, given the ResourceData and the literal so far
RECURSIVE ExpandFields(_, _, _, _, _, _)
ExpandFields(i, rd, acc, version, it, vappConfig) ==
    IF i > Len(SpecFields)
    THEN [d |-> rd, val |-> acc]
    ELSE Then(ExpandField(SpecFields[i], rd, version, it, vappConfig), LAMBDA r :
            ExpandFields(i + 1, r.d, [acc EXCEPT ![SpecFields[i]] = r.val],
                         version, it, vappConfig))

expandVirtualMachineConfigSpec(rd, version, vm, it) ==
    Then(expandVAppConfig(rd, vm), LAMBDA v :
        IF v.err # ""
        THEN [d |-> v.d, val |-> ZeroSpec, err |-> v.err]
        ELSE Then(ExpandFields(1, v.d, ZeroSpec, version, it, v.val), LAMBDA r :
                [d |-> r.d, val |-> r.val, err |-> ""]))

-----------------------------------------------------------------------------
(* Field codec, flatten direction.  A flatten operator returns the         *)
(* ResourceData after its writes (d) and whether it dereferenced a nil     *)
(* object on the way (panic), which ends the operation.                    *)

Flattened(rd) == [d |-> rd, panic |-> FALSE]
Panicked(rd) == [d |-> rd, panic |-> TRUE]

flattenVirtualMachineBootOptions(rd, o) ==
    IF o = Nil THEN Panicked(rd)
    ELSE LET b == Deref(o)
             r1 == Set(rd, "boot_delay", b.BootDelay)
             r2 == SetBoolPtr(r1, "efi_secure_boot_enabled", b.EfiSecureBootEnabled)
             r3 == SetBoolPtr(r2, "boot_retry_enabled", b.BootRetryEnabled)
             r4 == Set(r3, "boot_retry_delay", b.BootRetryDelay)
         IN  Flattened(r4)

\* o is &obj.Flags, never nil
flattenVirtualMachineFlagInfo(rd, o, version) ==
    LET f == Deref(o)
        r1 == SetPtrValue(rd, "enable_disk_uuid", f.DiskUuidEnabled, FALSE)
        r2 == Set(r1, "hv_mode", f.VirtualExecUsage)
        r3 == Set(r2, "ept_rvi_mode", f.VirtualMmuUsage)
        r4 == SetPtrValue(r3, "enable_logging", f.EnableLogging, FALSE)
        r5 == SetPtrValue(r4, "vbs_enabled", f.VbsEnabled, FALSE)
        r6 == SetPtrValue(r5, "vvtd_enabled", f.VvtdEnabled, FALSE)
    IN  IF AtLeast(version, VSphereVersion(6, 7, 0))
        THEN Flattened(r6)
        ELSE Flattened(r4)

flattenToolsConfigInfo(rd, o, version) ==
    IF o = Nil THEN Panicked(rd)
    ELSE LET t == Deref(o)
             r1 == SetPtrValue(rd, "sync_time_with_host", t.SyncTimeWithHost, FALSE)
             r2 == Set(r1, "tools_upgrade_policy", t.ToolsUpgradePolicy)
             r3 == SetPtrValue(r2, "run_tools_scripts_after_power_on", t.AfterPowerOn, FALSE)
             r4 == SetPtrValue(r3, "run_tools_scripts_after_resume", t.AfterResume, FALSE)
             r5 == SetPtrValue(r4, "run_tools_scripts_before_guest_standby",
                               t.BeforeGuestStandby, FALSE)
             r6 == SetPtrValue(r5, "run_tools_scripts_before_guest_shutdown",
                               t.BeforeGuestShutdown, FALSE)
             r7 == SetPtrValue(r6, "run_tools_scripts_before_guest_reboot",
                               t.BeforeGuestReboot, FALSE)
             r8 == SetPtrValue(r7, "sync_time_with_host", t.SyncTimeWithHostAllowed, FALSE)
             r9 == SetPtrValue(r8, "sync_time_with_host_periodically",
                               t.SyncTimeWithHost, FALSE)
         IN  IF AtLeast(version, VSphereVersion(7, 0, 1))
             THEN Flattened(r9)
             ELSE Flattened(r7)

flattenLatencySensitivity(rd, o) ==
    IF o = Nil THEN Flattened(rd)
    ELSE Flattened(Set(rd, "latency_sensitivity", Deref(o).Level))

flattenVirtualMachineResourceAllocation(rd, o, key) ==
    IF o = Nil THEN Panicked(rd)
    ELSE LET a == Deref(o)
             k == AllocationKeys(key)
             r1 == SetInt64Ptr(rd, k.limit, a.Limit)
             r2 == SetInt64Ptr(r1, k.reservation, a.Reservation)
             r3 == Set(r2, k.level, Deref(a.Shares).Level)
             r4 == Set(r3, k.count, Deref(a.Shares).Shares)
         IN  IF a.Shares # Nil THEN Flattened(r4) ELSE Flattened(r2)

\* the map ec after the options from index i on have been visited
RECURSIVE KnownOptions(_, _, _, _)
KnownOptions(opts, i, known, ec) ==
    IF i > Len(opts) THEN ec
    ELSE LET ov == opts[i]
         IN  KnownOptions(opts, i + 1, known,
                          IF InMap(known, ov.Key)
                          THEN (ov.Key :> ov.Value) @@ ec
                          ELSE ec)

flattenExtraConfig_Reported(rd, opts) ==
    IF Len(opts) < 1 THEN Flattened(rd)
    ELSE Flattened(Set(rd, "extra_config",
                       KnownOptions(opts, 1,
                                    [k \in {opts[i].Key : i \in 1..Len(opts)} |-> ""],
                                    EmptyMap)))

flattenExtraConfig(rd, opts) ==
    IF Len(opts) < 1 THEN Flattened(rd)
    ELSE Flattened(Set(rd, "extra_config",
                       KnownOptions(opts, 1, Get(rd, "extra_config"), EmptyMap)))

\* the map vac after the properties from index i on have been visited
RECURSIVE VAppValues(_, _, _)
VAppValues(props, i, vac) ==
    IF i > Len(props) THEN vac
    ELSE LET v == props[i]
         IN  VAppValues(props, i + 1,
                        IF /\ Deref(v.UserConfigurable)
                           /\ v.Value # "" /\ v.Value # v.DefaultValue
                        THEN (v.Id :> v.Value) @@ vac
                        ELSE vac)

flattenVAppConfig(rd, config) ==
    IF config = Nil THEN Flattened(Set(rd, "vapp_transport", <<>>))
    ELSE LET c == Deref(config)
             r1 == Set(rd, "vapp_transport", c.OvfEnvironmentTransport)
             vac == VAppValues(c.Property, 1, EmptyMap)
         IN  IF Len(c.Property) < 1 THEN Flattened(r1)
             ELSE IF vac # EmptyMap
             THEN Flattened(Set(r1, "vapp", <<[properties |-> vac]>>))
             ELSE Flattened(r1)

\* the writes of lines 971-993, before the sub-objects are flattened
FlattenScalars_SkipNumCPUs(rd, o) ==
    LET r1 == Set(rd, "name", o.Name)
        r2 == Set(r1, "guest_id", o.GuestId)
        r3 == Set(r2, "alternate_guest_name", o.AlternateGuestName)
        r4 == Set(r3, "annotation", o.Annotation)
        r5 == r4
        r6 == Set(r5, "num_cores_per_socket", o.Hardware.NumCoresPerSocket)
        r7 == Set(r6, "memory", o.Hardware.MemoryMB)
        r8 == SetPtrValue(r7, "memory_hot_add_enabled", o.MemoryHotAddEnabled, FALSE)
        memoryReservationLockedToMax ==
            IF o.MemoryReservationLockedToMax # Nil
            THEN Deref(o.MemoryReservationLockedToMax)
            ELSE FALSE
        r9 == Set(r8, "memory_reservation_locked_to_max", memoryReservationLockedToMax)
        r10 == SetPtrValue(r9, "cpu_hot_add_enabled", o.CpuHotAddEnabled, FALSE)
        r11 == SetPtrValue(r10, "cpu_hot_remove_enabled", o.CpuHotRemoveEnabled, FALSE)
        r12 == Set(r11, "swap_placement_policy", o.SwapPlacement)
        r13 == Set(r12, "firmware", o.Firmware)
        r14 == SetPtrValue(r13, "nested_hv_enabled", o.NestedHVEnabled, FALSE)
        r15 == SetPtrValue(r14, "cpu_performance_counters_enabled", o.VPMCEnabled, FALSE)
        r16 == Set(r15, "change_version", o.ChangeVersion)
        r17 == Set(r16, "uuid", o.Uuid)
    IN  Set(r17, "hardware_version", GetHardwareVersionNumber(o.Version))

FlattenScalars(rd, o) ==
    LET r1 == Set(rd, "name", o.Name)
        r2 == Set(r1, "guest_id", o.GuestId)
        r3 == Set(r2, "alternate_guest_name", o.AlternateGuestName)
        r4 == Set(r3, "annotation", o.Annotation)
        r5 == Set(r4, "num_cpus", o.Hardware.NumCPU)
        r6 == Set(r5, "num_cores_per_socket", o.Hardware.NumCoresPerSocket)
        r7 == Set(r6, "memory", o.Hardware.MemoryMB)
        r8 == SetPtrValue(r7, "memory_hot_add_enabled", o.MemoryHotAddEnabled, FALSE)
        memoryReservationLockedToMax ==
            IF o.MemoryReservationLockedToMax # Nil
            THEN Deref(o.MemoryReservationLockedToMax)
            ELSE FALSE
        r9 == Set(r8, "memory_reservation_locked_to_max", memoryReservationLockedToMax)
        r10 == SetPtrValue(r9, "cpu_hot_add_enabled", o.CpuHotAddEnabled, FALSE)
        r11 == SetPtrValue(r10, "cpu_hot_remove_enabled", o.CpuHotRemoveEnabled, FALSE)
        r12 == Set(r11, "swap_placement_policy", o.SwapPlacement)
        r13 == Set(r12, "firmware", o.Firmware)
        r14 == SetPtrValue(r13, "nested_hv_enabled", o.NestedHVEnabled, FALSE)
        r15 == SetPtrValue(r14, "cpu_performance_counters_enabled", o.VPMCEnabled, FALSE)
        r16 == Set(r15, "change_version", o.ChangeVersion)
        r17 == Set(r16, "uuid", o.Uuid)
    IN  Set(r17, "hardware_version", GetHardwareVersionNumber(o.Version))

flattenVirtualMachineConfigInfo(rd, o, version) ==
    Then(FlattenScalars(rd, o), LAMBDA s0 :
    Then(flattenToolsConfigInfo(s0, o.Tools, version), LAMBDA s1 :
    IF s1.panic THEN s1 ELSE
    Then(flattenVirtualMachineFlagInfo(s1.d, Ptr(o.Flags), version), LAMBDA s2 :
    Then(flattenVirtualMachineResourceAllocation(s2.d, o.CpuAllocation, "cpu"), LAMBDA s3 :
    IF s3.panic THEN s3 ELSE
    Then(flattenVirtualMachineResourceAllocation(s3.d, o.MemoryAllocation, "memory"), LAMBDA s4 :
    IF s4.panic THEN s4 ELSE
    Then(flattenExtraConfig(s4.d, o.ExtraConfig), LAMBDA s5 :
    Then(flattenVAppConfig(s5.d, o.VAppConfig), LAMBDA s6 :
    Then(flattenLatencySensitivity(s6.d, o.LatencySensitivity), LAMBDA s7 :
    flattenVirtualMachineBootOptions(s7.d, o.BootOptions)))))))))

-----------------------------------------------------------------------------
(* expandVirtualMachineConfigSpecChanged: the live configuration is        *)
(* flattened into a fresh ResourceData, read back as state and expanded;   *)
(* the desired configuration is expanded; the two specs are compared.      *)

expandVirtualMachineConfigSpecChanged_KeepVersion(rd, version, info, it) ==
    Then(flattenVirtualMachineConfigInfo(EmptyData(rd.id), info, version), LAMBDA f :
    IF f.panic
    THEN [d |-> rd, val |-> ZeroSpec, changed |-> FALSE, err |-> "", panic |-> TRUE]
    ELSE
    Then(ReloadState(f.d), LAMBDA oldData :
    Then(expandVirtualMachineConfigSpec(oldData, version, info, it), LAMBDA oldSpec :
    IF oldSpec.err # ""
    THEN [d |-> rd, val |-> ZeroSpec, changed |-> FALSE,
          err |-> oldSpec.err, panic |-> FALSE]
    ELSE
    Then(expandVirtualMachineConfigSpec(rd, version, info, it), LAMBDA newSpec :
    IF newSpec.err # ""
    THEN [d |-> newSpec.d, val |-> ZeroSpec, changed |-> FALSE,
          err |-> newSpec.err, panic |-> FALSE]
    ELSE [d |-> newSpec.d, val |-> newSpec.val,
          changed |-> oldSpec.val # newSpec.val, err |-> "", panic |-> FALSE]))))

expandVirtualMachineConfigSpecChanged(rd, version, info, it) ==
    Then(flattenVirtualMachineConfigInfo(EmptyData(rd.id), info, version), LAMBDA f :
    IF f.panic
    THEN [d |-> rd, val |-> ZeroSpec, changed |-> FALSE, err |-> "", panic |-> TRUE]
    ELSE
    Then(ReloadState(f.d), LAMBDA oldData :
    Then(expandVirtualMachineConfigSpec(oldData, version, info, it), LAMBDA oldSpec :
    IF oldSpec.err # ""
    THEN [d |-> rd, val |-> ZeroSpec, changed |-> FALSE,
          err |-> oldSpec.err, panic |-> FALSE]
    ELSE
    Then(expandVirtualMachineConfigSpec(rd, version, info, it), LAMBDA newSpec :
    IF newSpec.err # ""
    THEN [d |-> newSpec.d, val |-> ZeroSpec, changed |-> FALSE,
          err |-> newSpec.err, panic |-> FALSE]
    ELSE [d |-> newSpec.d, val |-> [newSpec.val EXCEPT !.Version = ""],
          changed |-> oldSpec.val # newSpec.val, err |-> "", panic |-> FALSE]))))

-----------------------------------------------------------------------------
(* The environment: endpoint versions and live machines *)

ClientVersion(major, minor, patch, build) ==
    [Major |-> major, Minor |-> minor, Patch |-> patch, Build |-> build]

\* an endpoint reports a positive build number
Builds == 1..MaxBuild

Versions ==
    {ClientVersion(v[1], v[2], v[3], b) :
        v \in {<<6, 0, 0>>, <<6, 5, 0>>, <<6, 7, 0>>, <<7, 0, 0>>, <<7, 0, 1>>, <<8, 0, 0>>},
        b \in Builds}

\* one declared vApp property of a live machine
VAppProperty(key, id, defaultValue, userConfigurable, value) ==
    [Key |-> key, Id |-> id, DefaultValue |-> defaultValue,
     UserConfigurable |-> Ptr(userConfigurable), Value |-> value]

\* a live machine that reports the recorded values of RecordedVM
LiveVM ==
    [Name |-> "vm", GuestId |-> "otherGuest64", AlternateGuestName |-> "",
     Annotation |-> "",
     Hardware |-> [NumCPU |-> 1, NumCoresPerSocket |-> 1, MemoryMB |-> 1024],
     MemoryHotAddEnabled |-> Ptr(FALSE),
     MemoryReservationLockedToMax |-> Ptr(FALSE),
     CpuHotAddEnabled |-> Ptr(FALSE), CpuHotRemoveEnabled |-> Ptr(FALSE),
     SwapPlacement |-> "inherit", Firmware |-> "bios",
     NestedHVEnabled |-> Ptr(FALSE), VPMCEnabled |-> Ptr(FALSE),
     ChangeVersion |-> "t1", Uuid |-> "vm-1", Version |-> "vmx-13",
     Tools |-> Ptr([SyncTimeWithHost |-> Ptr(TRUE), SyncTimeWithHostAllowed |-> Nil,
                    ToolsUpgradePolicy |-> "manual",
                    AfterPowerOn |-> Ptr(TRUE), AfterResume |-> Ptr(TRUE),
                    BeforeGuestStandby |-> Ptr(TRUE),
                    BeforeGuestShutdown |-> Ptr(TRUE),
                    BeforeGuestReboot |-> Ptr(FALSE)]),
     Flags |-> [DiskUuidEnabled |-> Ptr(FALSE), VirtualExecUsage |-> "hvAuto",
                VirtualMmuUsage |-> "automatic", EnableLogging |-> Ptr(FALSE),
                VbsEnabled |-> Ptr(FALSE), VvtdEnabled |-> Ptr(FALSE)],
     CpuAllocation |-> Ptr([Limit |-> Ptr(-1), Reservation |-> Ptr(0),
                            Shares |-> Ptr([Level |-> "normal", Shares |-> 1000])]),
     MemoryAllocation |-> Ptr([Limit |-> Ptr(-1), Reservation |-> Ptr(0),
                               Shares |-> Ptr([Level |-> "normal", Shares |-> 10240])]),
     ExtraConfig |-> <<>>,
     VAppConfig |-> Nil,
     LatencySensitivity |-> Ptr([Level |-> "normal"]),
     BootOptions |-> Ptr([BootDelay |-> 0, BootRetryEnabled |-> Ptr(FALSE),
                          BootRetryDelay |-> 10000,
                          EfiSecureBootEnabled |-> Ptr(FALSE)])]

-----------------------------------------------------------------------------
(* Values left at rest by a specification that does not use them *)

NoClient == [Major |-> 0, Minor |-> 0, Patch |-> 0, Build |-> 0]
NoLive == Nil
NoIter == [old |-> <<>>, new |-> <<>>]
NoObj == Nil
NoRes == [err |-> "", step |-> 0, vappConfig |-> Nil, changed |-> FALSE, panic |-> FALSE,
          again |-> Nil]

-----------------------------------------------------------------------------
(* SpecClassify: the change classifier applied to every old and new CPU    *)
(* count and memory size, every old and new capability flag, with          *)
(* reboot_required either still unset or already set by an earlier step.   *)

ClassifyData(oc, nc, oha, nha, ohr, nhr, om, nm, omh, nmh, rb) ==
    [id     |-> "vm-1",
     state  |-> [RecordedVM EXCEPT
                    !.num_cpus = oc, !.cpu_hot_add_enabled = oha,
                    !.cpu_hot_remove_enabled = ohr, !.memory = om,
                    !.memory_hot_add_enabled = omh],
     config |-> [RecordedVM EXCEPT
                    !.num_cpus = nc, !.cpu_hot_add_enabled = nha,
                    !.cpu_hot_remove_enabled = nhr, !.memory = nm,
                    !.memory_hot_add_enabled = nmh],
     set    |-> IF rb THEN ("reboot_required" :> TRUE) ELSE EmptyMap]

InitClassify ==
    /\ \E oc \in CPUCounts, nc \in CPUCounts, om \in MemSizes, nm \in MemSizes,
          oha \in BOOLEAN, nha \in BOOLEAN, ohr \in BOOLEAN, nhr \in BOOLEAN,
          omh \in BOOLEAN, nmh \in BOOLEAN, rb \in BOOLEAN :
            d = ClassifyData(oc, nc, oha, nha, ohr, nhr, om, nm, omh, nmh, rb)
    /\ d0 = d
    /\ client = NoClient
    /\ live = NoLive
    /\ iter = NoIter
    /\ pc = "start"
    /\ obj = NoObj
    /\ res = NoRes

CPUCount ==
    /\ pc = "start"
    /\ LET r == expandCPUCountConfig(d)
       IN  /\ d' = r.d
           /\ obj' = r.val
    /\ pc' = "cpu"
    /\ UNCHANGED <<d0, client, live, iter, res>>

MemorySize ==
    /\ pc = "start"
    /\ LET r == expandMemorySizeConfig(d)
       IN  /\ d' = r.d
           /\ obj' = r.val
    /\ pc' = "memory"
    /\ UNCHANGED <<d0, client, live, iter, res>>

NextClassify == CPUCount \/ MemorySize

SpecClassify == InitClassify /\ [][NextClassify]_vars

\* the inputs of the classifier, read off the ResourceData at entry
OldCPU == d0.state.num_cpus
NewCPU == Get(d0, "num_cpus")
OldCPUHotAdd == d0.state.cpu_hot_add_enabled
NewCPUHotAdd == Get(d0, "cpu_hot_add_enabled")
OldCPUHotRemove == d0.state.cpu_hot_remove_enabled
NewCPUHotRemove == Get(d0, "cpu_hot_remove_enabled")
OldMem == d0.state.memory
NewMem == Get(d0, "memory")
OldMemHotAdd == d0.state.memory_hot_add_enabled
NewMemHotAdd == Get(d0, "memory_hot_add_enabled")
RebootRequired == Get(d, "reboot_required")
\* the operation wrote nothing into the ResourceData
Untouched == d = d0

CPURestartCase ==
    \/ NewCPU > OldCPU /\ ~OldCPUHotAdd
    \/ NewCPU < OldCPU /\ ~OldCPUHotRemove

MemRestartCase ==
    \/ NewMem > OldMem /\ ~OldMemHotAdd
    \/ NewMem < OldMem

\* C1: expandCPUCountConfig sets reboot_required on an increase with hot-add
\* disabled and on a decrease with hot-remove disabled (pre-change flags),
\* writes nothing in every other case, and always returns the new CPU count.
C1_CPUClassification ==
    pc = "cpu" =>
        /\ obj = NewCPU
        /\ CPURestartCase => RebootRequired
        /\ ~CPURestartCase => Untouched

C1_Witness ==
    /\ pc = "cpu"
    /\ NewCPU < OldCPU /\ ~OldCPUHotRemove /\ OldCPUHotAdd
    /\ ~Get(d0, "reboot_required") /\ RebootRequired
    /\ obj = NewCPU

\* C2: expandMemorySizeConfig sets reboot_required on an increase with hot-add
\* disabled and on every decrease, writes nothing on an increase with hot-add
\* enabled or when the size is unchanged, and always returns the new size.
C2_MemoryClassification ==
    pc = "memory" =>
        /\ obj = NewMem
        /\ MemRestartCase => RebootRequired
        /\ ~MemRestartCase => Untouched

C2_Witness ==
    /\ pc = "memory"
    /\ NewMem < OldMem /\ OldMemHotAdd
    /\ ~Get(d0, "reboot_required") /\ RebootRequired
    /\ obj = NewMem

\* C3: when a capability flag changes in the same apply as the CPU count or
\* memory size, the classifier decides by the old flag: an increase with
\* hot-add going false -> true is restart-required, and with hot-add going
\* true -> false (likewise hot-remove on a decrease) it writes nothing.
C3_OldCapabilityDecides ==
    /\ (pc = "cpu" /\ NewCPU > OldCPU /\ OldCPUHotAdd # NewCPUHotAdd) =>
            IF OldCPUHotAdd THEN Untouched ELSE RebootRequired
    /\ (pc = "cpu" /\ NewCPU < OldCPU /\ OldCPUHotRemove # NewCPUHotRemove) =>
            IF OldCPUHotRemove THEN Untouched ELSE RebootRequired
    /\ (pc = "memory" /\ NewMem > OldMem /\ OldMemHotAdd # NewMemHotAdd) =>
            IF OldMemHotAdd THEN Untouched ELSE RebootRequired

C3_Witness ==
    /\ pc = "cpu"
    /\ NewCPU > OldCPU /\ ~OldCPUHotAdd /\ NewCPUHotAdd
    /\ ~Get(d0, "reboot_required") /\ RebootRequired

-----------------------------------------------------------------------------
(* SpecExtra: expandExtraConfig applied to every pair of old and new       *)
(* extra_config maps over MaxKeys keys, in every iteration order.          *)

KeyNames == <<"guestinfo.a", "guestinfo.b", "guestinfo.c", "guestinfo.d">>
ExtraKeys == {KeyNames[i] : i \in 1..MaxKeys}
ExtraValues == {"1", "2"}

\* every map[string]string over the keys
MapsOver(keys, values) ==
    UNION {[ks -> values] : ks \in SUBSET keys}

ExtraMaps == MapsOver(ExtraKeys, ExtraValues)

\* every order in which a range loop may visit the keys
Orders(keys) ==
    {o \in [1..Cardinality(keys) -> keys] :
        \A i, j \in 1..Cardinality(keys) : o[i] = o[j] => i = j}

ExtraData(old, newValue, rebootOverride, rb) ==
    [id     |-> "vm-1",
     state  |-> [RecordedVM EXCEPT !.extra_config = old],
     config |-> [RecordedVM EXCEPT !.extra_config = newValue,
                                   !.extra_config_reboot_required = rebootOverride],
     set    |-> IF rb THEN ("reboot_required" :> TRUE) ELSE EmptyMap]

InitExtra ==
    /\ \E old \in ExtraMaps, newValue \in ExtraMaps,
          rebootOverride \in BOOLEAN, rb \in BOOLEAN :
            d = ExtraData(old, newValue, rebootOverride, rb)
    /\ d0 = d
    /\ client = NoClient
    /\ live = NoLive
    /\ \E o \in Orders(ExtraKeys), n \in Orders(ExtraKeys) : iter = [old |-> o, new |-> n]
    /\ pc = "start"
    /\ obj = NoObj
    /\ res = NoRes

ExpandExtra ==
    /\ pc = "start"
    /\ LET r == expandExtraConfig(d, iter)
       IN  /\ d' = r.d
           /\ obj' = r.val
    /\ pc' = "extra"
    /\ UNCHANGED <<d0, client, live, iter, res>>

NextExtra == ExpandExtra

SpecExtra == InitExtra /\ [][NextExtra]_vars

OldExtra == d0.state.extra_config
NewExtra == Get(d0, "extra_config")

\* the entries of the returned option list that carry key k
EntriesFor(opts, k) == {i \in 1..Len(opts) : opts[i].Key = k}

\* C10: when extra_config changed, the result holds exactly one entry with an
\* empty value per key of old absent from new, exactly one entry with the new
\* value per key that is new or has another value, none for an unchanged key;
\* when it did not change the result is nil and nothing is written.
C10_ExtraConfigDelta ==
    pc = "extra" =>
        IF OldExtra = NewExtra
        THEN obj = Nil /\ Untouched
        ELSE \A k \in ExtraKeys :
                LET e == EntriesFor(obj, k)
                IN  IF InMap(OldExtra, k) /\ ~InMap(NewExtra, k)
                    THEN Cardinality(e) = 1 /\ \A i \in e : obj[i].Value = ""
                    ELSE IF InMap(NewExtra, k) /\ (InMap(OldExtra, k) => OldExtra[k] # NewExtra[k])
                    THEN Cardinality(e) = 1 /\ \A i \in e : obj[i].Value = NewExtra[k]
                    ELSE e = {}

C10_Witness ==
    /\ pc = "extra"
    /\ \E k \in ExtraKeys : InMap(OldExtra, k) /\ ~InMap(NewExtra, k)
    /\ \E k \in ExtraKeys : InMap(OldExtra, k) /\ InMap(NewExtra, k) /\ OldExtra[k] # NewExtra[k]
    /\ Len(obj) = 2

RebootOverride == Get(d0, "extra_config_reboot_required")

\* C24: a changed extra_config leaves reboot_required true when
\* extra_config_reboot_required is true and does not leave it true when the
\* override is false; an unchanged extra_config writes nothing, so it never
\* raises reboot_required.  The default of the override is true.
C24_ExtraConfigRestartOverride ==
    /\ SchemaDefaults["extra_config_reboot_required"] = TRUE
    /\ pc = "extra" =>
        IF OldExtra = NewExtra
        THEN Untouched
        ELSE IF RebootOverride
        THEN RebootRequired
        ELSE ~RebootRequired

C24_Witness ==
    /\ pc = "extra"
    /\ OldExtra # NewExtra
    /\ ~RebootOverride
    /\ ~RebootRequired
    /\ obj # Nil

-----------------------------------------------------------------------------
(* Spec: one call of expandVirtualMachineConfigSpec on an existing         *)
(* machine, one step per field of the literal.  The planned configuration  *)
(* differs from the recorded one in any combination of guest_id, num_cpus, *)
(* extra_config, firmware and vapp.                                        *)

ApplyKeys == {KeyNames[1]}
ApplyMaps == MapsOver(ApplyKeys, ExtraValues)
ApplyOrder == [old |-> <<KeyNames[1]>>, new |-> <<KeyNames[1]>>]
ApplyVersion == ClientVersion(7, 0, 1, 1)

VAppBlocks == {<<>>, <<[properties |-> ("hostname" :> "web")]>>}

LiveVApps ==
    {Nil,
     Ptr([Property |-> <<VAppProperty(0, "hostname", "", TRUE, "")>>,
          OvfEnvironmentTransport |-> <<"iso">>])}

ApplyData(nc, oha, oldE, newE, rebootOverride, fw, guest, va) ==
    [id     |-> "vm-1",
     state  |-> [RecordedVM EXCEPT
                    !.num_cpus = 2, !.cpu_hot_add_enabled = oha,
                    !.extra_config = oldE],
     config |-> [RecordedVM EXCEPT
                    !.num_cpus = nc, !.cpu_hot_add_enabled = oha,
                    !.extra_config = newE,
                    !.extra_config_reboot_required = rebootOverride,
                    !.firmware = fw, !.guest_id = guest, !.vapp = va],
     set    |-> EmptyMap]

Init ==
    /\ \E nc \in CPUCounts, oha \in BOOLEAN, oldE \in ApplyMaps, newE \in ApplyMaps,
          rebootOverride \in BOOLEAN, fw \in {"bios", "efi"},
          guest \in {"otherGuest64", "ubuntu64Guest"}, va \in VAppBlocks :
            d = ApplyData(nc, oha, oldE, newE, rebootOverride, fw, guest, va)
    /\ d0 = d
    /\ client = ApplyVersion
    /\ \E va \in LiveVApps : live = [LiveVM EXCEPT !.VAppConfig = va]
    /\ iter = ApplyOrder
    /\ pc = "start"
    /\ obj = NoObj
    /\ res = NoRes

\* lines 930-933: the vApp configuration, which may fail the expansion
ExpandVApp ==
    /\ pc = "start"
    /\ LET v == expandVAppConfig(d, live)
       IN  /\ d' = v.d
           /\ res' = [res EXCEPT !.err = v.err, !.vappConfig = v.val, !.step = 1]
           /\ pc' = IF v.err # "" THEN "failed" ELSE "fields"
           /\ obj' = ZeroSpec
    /\ UNCHANGED <<d0, client, live, iter>>

\* lines 935-961: the next field of the literal
ExpandNextField ==
    /\ pc = "fields"
    /\ res.step <= Len(SpecFields)
    /\ LET r == ExpandField(SpecFields[res.step], d, client, iter, res.vappConfig)
       IN  /\ d' = r.d
           /\ obj' = [obj EXCEPT ![SpecFields[res.step]] = r.val]
    /\ res' = [res EXCEPT !.step = @ + 1]
    /\ UNCHANGED <<d0, client, live, iter, pc>>

\* line 963
ExpandReturn ==
    /\ pc = "fields"
    /\ res.step > Len(SpecFields)
    /\ pc' = "done"
    /\ UNCHANGED <<d, d0, client, live, iter, obj, res>>

Next == ExpandVApp \/ ExpandNextField \/ ExpandReturn

Spec == Init /\ [][Next]_vars

\* C4: within one call of expandVirtualMachineConfigSpec, once a step has set
\* reboot_required to true no later step of the call sets it back to false.
C4_RestartFlagLatched ==
    [][RebootRequired => RebootRequired']_vars

-----------------------------------------------------------------------------
(* SpecGate: the version-gated expanders and flatteners applied at every   *)
(* endpoint version to every value of the gated keys and of the gated      *)
(* fields of the live object.                                              *)

OptionalBools == {Nil, Ptr(FALSE), Ptr(TRUE)}

GateData(sync, periodic, efi, vbs) ==
    [id     |-> "vm-1",
     state  |-> RecordedVM,
     config |-> [RecordedVM EXCEPT
                    !.sync_time_with_host = sync,
                    !.sync_time_with_host_periodically = periodic,
                    !.efi_secure_boot_enabled = efi,
                    !.vbs_enabled = vbs, !.vvtd_enabled = vbs],
     set    |-> EmptyMap]

GateLive(toolsSync, toolsAllowed, efi, vbs) ==
    [LiveVM EXCEPT
        !.Tools = Ptr([Deref(LiveVM.Tools) EXCEPT
                        !.SyncTimeWithHost = Ptr(toolsSync),
                        !.SyncTimeWithHostAllowed = toolsAllowed]),
        !.BootOptions = Ptr([Deref(LiveVM.BootOptions) EXCEPT
                        !.EfiSecureBootEnabled = efi]),
        !.Flags = [LiveVM.Flags EXCEPT !.VbsEnabled = vbs, !.VvtdEnabled = vbs]]

InitGate ==
    /\ \E sync \in BOOLEAN, periodic \in BOOLEAN, efi \in BOOLEAN, vbs \in BOOLEAN :
            d = GateData(sync, periodic, efi, vbs)
    /\ d0 = d
    /\ client \in Versions
    /\ \E toolsSync \in BOOLEAN, toolsAllowed \in OptionalBools,
          efi \in OptionalBools, vbs \in OptionalBools :
            live = GateLive(toolsSync, toolsAllowed, efi, vbs)
    /\ iter = NoIter
    /\ pc = "start"
    /\ obj = NoObj
    /\ res = NoRes

ExpandTools ==
    /\ pc = "start"
    /\ LET r == expandToolsConfigInfo(d, client)
       IN  d' = r.d /\ obj' = r.val
    /\ pc' = "expandTools"
    /\ UNCHANGED <<d0, client, live, iter, res>>

ExpandBoot ==
    /\ pc = "start"
    /\ LET r == expandVirtualMachineBootOptions(d, client)
       IN  d' = r.d /\ obj' = r.val
    /\ pc' = "expandBoot"
    /\ UNCHANGED <<d0, client, live, iter, res>>

ExpandFlags ==
    /\ pc = "start"
    /\ LET r == expandVirtualMachineFlagInfo(d, client)
       IN  d' = r.d /\ obj' = r.val
    /\ pc' = "expandFlags"
    /\ UNCHANGED <<d0, client, live, iter, res>>

FlattenTools ==
    /\ pc = "start"
    /\ LET r == flattenToolsConfigInfo(d, live.Tools, client)
       IN  d' = r.d /\ res' = [res EXCEPT !.panic = r.panic]
    /\ pc' = "flattenTools"
    /\ UNCHANGED <<d0, client, live, iter, obj>>

FlattenBoot ==
    /\ pc = "start"
    /\ LET r == flattenVirtualMachineBootOptions(d, live.BootOptions)
       IN  d' = r.d /\ res' = [res EXCEPT !.panic = r.panic]
    /\ pc' = "flattenBoot"
    /\ UNCHANGED <<d0, client, live, iter, obj>>

FlattenFlags ==
    /\ pc = "start"
    /\ LET r == flattenVirtualMachineFlagInfo(d, Ptr(live.Flags), client)
       IN  d' = r.d /\ res' = [res EXCEPT !.panic = r.panic]
    /\ pc' = "flattenFlags"
    /\ UNCHANGED <<d0, client, live, iter, obj>>

NextGate ==
    \/ ExpandTools \/ ExpandBoot \/ ExpandFlags
    \/ FlattenTools \/ FlattenBoot \/ FlattenFlags

SpecGate == InitGate /\ [][NextGate]_vars

\* the endpoint's major.minor.patch is at least the given triple
Supported(major, minor, patch) ==
    \/ client.Major > major
    \/ client.Major = major /\ client.Minor > minor
    \/ client.Major = major /\ client.Minor = minor /\ client.Patch >= patch

\* the operation wrote key into the ResourceData
Written(key) == key \in DOMAIN d.set

\* C8: expandToolsConfigInfo populates SyncTimeWithHostAllowed iff the
\* endpoint is at least 7.0.1; below, SyncTimeWithHost carries
\* sync_time_with_host; from 7.0.1 on, SyncTimeWithHostAllowed carries
\* sync_time_with_host and SyncTimeWithHost carries
\* sync_time_with_host_periodically.
C8_ToolsGateOnExpand ==
    pc = "expandTools" =>
        LET t == Deref(obj)
            sync == Get(d0, "sync_time_with_host")
            periodic == Get(d0, "sync_time_with_host_periodically")
        IN  /\ t.SyncTimeWithHostAllowed # Nil <=> Supported(7, 0, 1)
            /\ ~Supported(7, 0, 1) => t.SyncTimeWithHost = Ptr(sync)
            /\ Supported(7, 0, 1) =>
                    /\ t.SyncTimeWithHostAllowed = Ptr(sync)
                    /\ t.SyncTimeWithHost = Ptr(periodic)

C8_Witness ==
    /\ pc = "expandTools"
    /\ client.Major = 7 /\ client.Minor = 0 /\ client.Patch = 1
    /\ Get(d0, "sync_time_with_host") /\ ~Get(d0, "sync_time_with_host_periodically")
    /\ Deref(obj).SyncTimeWithHostAllowed = Ptr(TRUE)
    /\ Deref(obj).SyncTimeWithHost = Ptr(FALSE)

\* C9: for every version-gated field (efi_secure_boot_enabled from 6.5.0,
\* vbs_enabled and vvtd_enabled from 6.7.0, sync_time_with_host_periodically
\* from 7.0.1) expand writes the field into the machine configuration iff the
\* endpoint is at least the field's minimum, and flatten reads the field of
\* the remote object into the recorded state iff the same holds.
C9_GateSymmetry ==
    /\ pc = "expandBoot" =>
            (Deref(obj).EfiSecureBootEnabled # Nil <=> Supported(6, 5, 0))
    /\ pc = "expandFlags" =>
            /\ Deref(obj).VbsEnabled # Nil <=> Supported(6, 7, 0)
            /\ Deref(obj).VvtdEnabled # Nil <=> Supported(6, 7, 0)
    /\ pc = "expandTools" =>
            (Deref(obj).SyncTimeWithHostAllowed # Nil <=> Supported(7, 0, 1))
    /\ (pc = "flattenBoot" /\ Deref(live.BootOptions).EfiSecureBootEnabled # Nil) =>
            (Written("efi_secure_boot_enabled") <=> Supported(6, 5, 0))
    /\ pc = "flattenFlags" =>
            /\ Written("vbs_enabled") <=> Supported(6, 7, 0)
            /\ Written("vvtd_enabled") <=> Supported(6, 7, 0)
    /\ pc = "flattenTools" =>
            (Written("sync_time_with_host_periodically") <=> Supported(7, 0, 1))

\* the part of C9 the source does keep: every gate but the flatten side of
\* efi_secure_boot_enabled
GateSymmetryButEfiFlatten ==
    /\ pc = "expandBoot" =>
            (Deref(obj).EfiSecureBootEnabled # Nil <=> Supported(6, 5, 0))
    /\ pc = "expandFlags" =>
            /\ Deref(obj).VbsEnabled # Nil <=> Supported(6, 7, 0)
            /\ Deref(obj).VvtdEnabled # Nil <=> Supported(6, 7, 0)
    /\ pc = "flattenFlags" =>
            /\ Written("vbs_enabled") <=> Supported(6, 7, 0)
            /\ Written("vvtd_enabled") <=> Supported(6, 7, 0)
    /\ pc = "flattenTools" =>
            (Written("sync_time_with_host_periodically") <=> Supported(7, 0, 1))

-----------------------------------------------------------------------------
(* SpecDiff: the diff engine and the expand/flatten round trip.  The       *)
(* recorded state is what a read of the live machine left behind           *)
(* (flattenVirtualMachineConfigInfo over the prior record, read back as    *)
(* state); the planned configuration keeps it or edits num_cpus,           *)
(* hardware_version, extra_config, storage_policy_id and vapp.             *)

DiffVersions == {ClientVersion(6, 0, 0, 1), ClientVersion(7, 0, 1, 1)}
PolicyIDs == {"", "policy-1"}
HardwareVersions == {13, 19}

LiveExtraConfigs == {<<>>, <<[Key |-> KeyNames[1], Value |-> "1"]>>}

LiveVAppsSet ==
    {Nil,
     Ptr([Property |-> <<VAppProperty(0, "hostname", "", TRUE, "web")>>,
          OvfEnvironmentTransport |-> <<"iso">>])}

DiffLive(toolsSync, toolsAllowed, extra, va) ==
    [LiveVM EXCEPT
        !.Tools = Ptr([Deref(LiveVM.Tools) EXCEPT
                        !.SyncTimeWithHost = Ptr(toolsSync),
                        !.SyncTimeWithHostAllowed = toolsAllowed]),
        !.ExtraConfig = extra,
        !.VAppConfig = va]

\* the record before the read: the keys of extra_config the configuration
\* knows, and the storage policy the read looked up
PriorData(knownExtra, policy) ==
    [id     |-> "vm-1",
     state  |-> [RecordedVM EXCEPT !.extra_config = knownExtra,
                                   !.storage_policy_id = policy],
     config |-> [RecordedVM EXCEPT !.extra_config = knownExtra,
                                   !.storage_policy_id = policy],
     set    |-> EmptyMap]

\* the record after the read of the live machine
ReadData(knownExtra, policy, info, version) ==
    ReloadState(flattenVirtualMachineConfigInfo(PriorData(knownExtra, policy),
                                                info, version).d)

\* the planned configuration over a recorded state
Planned(rd, nc, hw, newE, newPolicy, va) ==
    [rd EXCEPT !.config = [rd.state EXCEPT
                            !.num_cpus = nc, !.hardware_version = hw,
                            !.extra_config = newE,
                            !.storage_policy_id = newPolicy, !.vapp = va]]

InitDiff ==
    /\ client \in DiffVersions
    /\ \E toolsSync \in BOOLEAN, toolsAllowed \in {Nil, Ptr(TRUE)},
          extra \in LiveExtraConfigs, va \in LiveVAppsSet :
            live = DiffLive(toolsSync, toolsAllowed, extra, va)
    /\ \E knownExtra \in {EmptyMap, (KeyNames[1] :> "2")}, policy \in PolicyIDs :
        \E rd \in {ReadData(knownExtra, policy, live, client)} :
            \E nc \in CPUCounts,
               hw \in {rd.state.hardware_version} \cup HardwareVersions,
               newE \in {rd.state.extra_config} \cup ApplyMaps,
               newPolicy \in PolicyIDs,
               va \in {rd.state.vapp} \cup VAppBlocks :
                 d = Planned(rd, nc, hw, newE, newPolicy, va)
    /\ d0 = d
    /\ iter = ApplyOrder
    /\ pc = "start"
    /\ obj = NoObj
    /\ res = NoRes

\* expandVirtualMachineConfigSpecChanged(d, client, info)
DiffChanged ==
    /\ pc = "start"
    /\ \E r \in {expandVirtualMachineConfigSpecChanged(d, client, live, iter)} :
           /\ d' = r.d
           /\ obj' = r.val
           /\ res' = [res EXCEPT !.err = r.err, !.changed = r.changed,
                                 !.panic = r.panic]
    /\ pc' = "changed"
    /\ UNCHANGED <<d0, client, live, iter>>

\* the VirtualMachineConfigInfo that reports the values of a config spec
InfoFromSpec(m) ==
    [Name |-> m.Name, GuestId |-> m.GuestId,
     AlternateGuestName |-> m.AlternateGuestName, Annotation |-> m.Annotation,
     Hardware |-> [NumCPU |-> m.NumCPUs, NumCoresPerSocket |-> m.NumCoresPerSocket,
                   MemoryMB |-> m.MemoryMB],
     MemoryHotAddEnabled |-> m.MemoryHotAddEnabled,
     MemoryReservationLockedToMax |-> m.MemoryReservationLockedToMax,
     CpuHotAddEnabled |-> m.CpuHotAddEnabled,
     CpuHotRemoveEnabled |-> m.CpuHotRemoveEnabled,
     SwapPlacement |-> m.SwapPlacement, Firmware |-> m.Firmware,
     NestedHVEnabled |-> m.NestedHVEnabled, VPMCEnabled |-> m.VPMCEnabled,
     ChangeVersion |-> "", Uuid |-> "", Version |-> m.Version,
     Tools |-> m.Tools, Flags |-> Deref(m.Flags),
     CpuAllocation |-> m.CpuAllocation, MemoryAllocation |-> m.MemoryAllocation,
     ExtraConfig |-> m.ExtraConfig,
     VAppConfig |->
        IF m.VAppConfig = Nil THEN Nil
        ELSE Ptr([Property |->
                    [i \in 1..Len(Deref(m.VAppConfig).Property) |->
                        LET e == Deref(m.VAppConfig).Property[i].Info
                        IN  [Key |-> e.Key, Id |-> e.Id, DefaultValue |-> "",
                             UserConfigurable |-> e.UserConfigurable,
                             Value |-> e.Value]],
                  OvfEnvironmentTransport |-> <<>>]),
     LatencySensitivity |-> m.LatencySensitivity,
     BootOptions |-> m.BootOptions]

\* expand, flatten the result into a fresh record, expand again
RoundTrip ==
    /\ pc = "start"
    /\ \E m \in {expandVirtualMachineConfigSpec(d, client, live, iter)} :
         IF m.err # ""
         THEN /\ d' = m.d
              /\ obj' = m.val
              /\ res' = [res EXCEPT !.err = m.err]
              /\ pc' = "roundTripFailed"
         ELSE \E info \in {InfoFromSpec(m.val)} :
              \E f \in {flattenVirtualMachineConfigInfo(EmptyData(d.id), info, client)} :
              \E fresh \in {ReloadState(f.d)} :
              \E m2 \in {expandVirtualMachineConfigSpec(fresh, client, info, iter)} :
                /\ d' = m.d
                /\ obj' = m.val
                /\ res' = [res EXCEPT !.err = m2.err, !.panic = f.panic,
                                      !.again = m2.val]
                /\ pc' = "roundTrip"
    /\ UNCHANGED <<d0, client, live, iter>>

NextDiff == DiffChanged \/ RoundTrip

SpecDiff == InitDiff /\ [][NextDiff]_vars

\* the planned configuration is the recorded one
NoPendingChange == d0.config = d0.state /\ d0.set = EmptyMap

ClearVersion(m) == [m EXCEPT !.Version = ""]

\* C5: with no pending change and a live configuration that reports the
\* recorded values, expandVirtualMachineConfigSpecChanged returns
\* changed = false, whatever storage_policy_id, extra_config and vapp are.
C5_NoOpDiff ==
    (pc = "changed" /\ NoPendingChange /\ res.err = "") => ~res.changed

\* what the source does keep of C5: no change is reported for a record
\* without a storage policy
NoOpDiffWithoutPolicy ==
    (pc = "changed" /\ NoPendingChange /\ res.err = ""
        /\ Get(d0, "storage_policy_id") = "") => ~res.changed

DeltaFields == {"ExtraConfig", "VAppConfig", "VmProfile"}
CodecFields == {SpecFields[i] : i \in 1..Len(SpecFields)} \ (DeltaFields \cup {"Version"})

C7_UpdateCarriesNoVersion ==
    (pc = "changed" /\ res.err = "") =>
        LET want == expandVirtualMachineConfigSpec(d0, client, live, iter).val
        IN  /\ obj.Version = ""
            /\ \A i \in 1..Len(SpecFields) :
                    SpecFields[i] # "Version" => obj[SpecFields[i]] = want[SpecFields[i]]

C7_Witness ==
    /\ pc = "changed" /\ res.err = ""
    /\ Get(d0, "hardware_version") = 19
    /\ d0.state.hardware_version = 13
    /\ obj.Version = ""
    /\ obj.NumCPUs = Get(d0, "num_cpus")

-----------------------------------------------------------------------------
(* SpecKnown: flattenExtraConfig over a record that knows some keys and a  *)
(* live machine that reports a list of options, some of them unmanaged.    *)

MaxOpts == 2

ReportedKeys == ExtraKeys \cup {"sched.unmanaged"}

OptionLists ==
    UNION {[1..n -> [Key : ReportedKeys, Value : ExtraValues]] : n \in 0..MaxOpts}

KnownData(known) ==
    [id     |-> "vm-1",
     state  |-> [RecordedVM EXCEPT !.extra_config = known],
     config |-> [RecordedVM EXCEPT !.extra_config = known],
     set    |-> EmptyMap]

InitKnown ==
    /\ \E known \in ExtraMaps : d = KnownData(known)
    /\ d0 = d
    /\ client = NoClient
    /\ \E opts \in OptionLists : live = [LiveVM EXCEPT !.ExtraConfig = opts]
    /\ iter = NoIter
    /\ pc = "start"
    /\ obj = NoObj
    /\ res = NoRes

\* flattenExtraConfig(d, obj.ExtraConfig)
FlattenExtra ==
    /\ pc = "start"
    /\ \E r \in {flattenExtraConfig(d, live.ExtraConfig)} :
        /\ d' = r.d
        /\ res' = [res EXCEPT !.panic = r.panic]
    /\ pc' = "flattenExtra"
    /\ UNCHANGED <<d0, client, live, iter, obj>>

NextKnown == FlattenExtra

SpecKnown == InitKnown /\ [][NextKnown]_vars

Reported == {live.ExtraConfig[i].Key : i \in 1..Len(live.ExtraConfig)}

\* the value the report gives for k: the one of its last option with that key
ReportedValue(k) ==
    LET last == CHOOSE i \in EntriesFor(live.ExtraConfig, k) :
                    \A j \in EntriesFor(live.ExtraConfig, k) : j <= i
    IN  live.ExtraConfig[last].Value

\* C11: after flattenExtraConfig with a non-empty report, the recorded
\* extra_config has exactly the keys both previously recorded and reported,
\* with the reported values, and nothing else is written; with an empty
\* report the record is left as it was.
C11_OnlyKnownKeys ==
    pc = "flattenExtra" =>
        IF live.ExtraConfig = <<>>
        THEN d = d0
        ELSE /\ DOMAIN Get(d, "extra_config") =
                    DOMAIN Get(d0, "extra_config") \cap Reported
             /\ \A k \in DOMAIN Get(d, "extra_config") :
                    Get(d, "extra_config")[k] = ReportedValue(k)
             /\ DOMAIN d.set = {"extra_config"}
             /\ ~res.panic

C11_Witness ==
    /\ pc = "flattenExtra"
    /\ "sched.unmanaged" \in Reported
    /\ \E k \in DOMAIN Get(d0, "extra_config") :
        /\ k \in Reported
        /\ Get(d, "extra_config")[k] # Get(d0, "extra_config")[k]
    /\ DOMAIN Get(d0, "extra_config") \ Reported # {}
    /\ "sched.unmanaged" \notin DOMAIN Get(d, "extra_config")

-----------------------------------------------------------------------------
(* SpecVApp: expandVAppConfig, alone and as the first step of              *)
(* expandVirtualMachineConfigSpec, over new and existing machines, live    *)
(* objects with and without a vApp configuration, and configurations that  *)
(* name declared, hidden and undeclared properties.                        *)

MaxProps == 2

DeclaredIds == <<"hostname", "dns">>
ConfiguredIds == {"hostname", "dns", "ghost"}

\* the declared properties a live object may report: distinct ids, each
\* user-configurable or not, with or without a default value
DeclaredProperty(i, userConfigurable, defaultValue) ==
    VAppProperty(i, DeclaredIds[i], defaultValue, userConfigurable, "")

PropertyLists ==
    UNION {{ps \in [1..n -> {DeclaredProperty(i, u, dv) :
                                i \in 1..Len(DeclaredIds), u \in BOOLEAN,
                                dv \in {"", "localhost"}}] :
                \A a, b \in 1..n : ps[a].Id = ps[b].Id => a = b} :
           n \in 0..MaxProps}

VAppLives ==
    {Nil} \cup {Ptr([Property |-> ps, OvfEnvironmentTransport |-> <<"iso">>]) :
                    ps \in PropertyLists}

VAppConfigured ==
    {<<>>} \cup {<<[properties |-> m]>> : m \in MapsOver(ConfiguredIds, {"web"})}

VAppRecorded == {<<>>, <<[properties |-> ("hostname" :> "old")]>>}

VAppData(id, old, newValue, hidden) ==
    [id     |-> id,
     state  |-> [RecordedVM EXCEPT !.vapp = old, !.enable_hidden_properties = hidden],
     config |-> [RecordedVM EXCEPT !.vapp = newValue,
                                   !.enable_hidden_properties = hidden],
     set    |-> EmptyMap]

InitVApp ==
    /\ \E id \in {"", "vm-1"}, old \in VAppRecorded, newValue \in VAppConfigured,
          hidden \in BOOLEAN :
            d = VAppData(id, old, newValue, hidden)
    /\ d0 = d
    /\ client = ApplyVersion
    /\ \E va \in VAppLives : live = [LiveVM EXCEPT !.VAppConfig = va]
    /\ iter = ApplyOrder
    /\ pc = "start"
    /\ obj = NoObj
    /\ res = NoRes

\* expandVAppConfig(d, client)
ExpandVAppConfig ==
    /\ pc = "start"
    /\ \E v \in {expandVAppConfig(d, live)} :
        /\ d' = v.d
        /\ res' = [res EXCEPT !.err = v.err, !.vappConfig = v.val]
    /\ pc' = "vapp"
    /\ UNCHANGED <<d0, client, live, iter, obj>>

\* expandVirtualMachineConfigSpec(d, client)
ExpandConfigSpec ==
    /\ pc = "start"
    /\ \E m \in {expandVirtualMachineConfigSpec(d, client, live, iter)} :
        /\ d' = m.d
        /\ obj' = m.val
        /\ res' = [res EXCEPT !.err = m.err, !.vappConfig = m.val.VAppConfig]
    /\ pc' = "spec"
    /\ UNCHANGED <<d0, client, live, iter>>

NextVApp == ExpandVAppConfig \/ ExpandConfigSpec

SpecVApp == InitVApp /\ [][NextVApp]_vars

VAppChanged == HasChange(d0, "vapp")
Named == VAppNewMap(d0)
Hidden == Get(d0, "enable_hidden_properties")
Declared == IF live.VAppConfig = Nil THEN <<>> ELSE Deref(live.VAppConfig).Property
DeclaredBy(id) == {i \in 1..Len(Declared) : Declared[i].Id = id}
Eligible(p) == Hidden \/ Deref(p.UserConfigurable)

\* C12: on an existing machine whose vapp block changed, a configuration
\* naming an id the live object does not declare, or declares as not
\* user-configurable while hidden properties are off, gets an error and no
\* spec from expandVAppConfig and from expandVirtualMachineConfigSpec.
C12_VAppReferentialError ==
    (/\ pc \in {"vapp", "spec"}
     /\ d0.id # "" /\ VAppChanged
     /\ \E id \in DOMAIN Named :
            \/ DeclaredBy(id) = {}
            \/ ~Hidden /\ \E i \in DeclaredBy(id) : ~Deref(Declared[i].UserConfigurable))
    => /\ res.err # ""
       /\ res.vappConfig = Nil
       /\ pc = "spec" => obj = ZeroSpec

C12_Witness ==
    /\ pc = "spec" /\ d0.id # "" /\ VAppChanged
    /\ "ghost" \in DOMAIN Named
    /\ "hostname" \in DOMAIN Named /\ DeclaredBy("hostname") # {}
    /\ res.err # "" /\ obj = ZeroSpec

\* the value an edit of property p carries
EditValue(p) ==
    IF p.Id \in DOMAIN Named THEN Named[p.Id]
    ELSE IF p.DefaultValue # "" THEN p.DefaultValue
    ELSE " "

\* C13: when expandVAppConfig succeeds on an existing machine, the edits are
\* one per eligible declared property, in the live order, with the
\* property's key and id, and the configured value, else the default, else
\* a single space.
C13_VAppDeltaContent ==
    (pc = "vapp" /\ d0.id # "" /\ VAppChanged /\ res.err = "") =>
        /\ res.vappConfig # Nil
        /\ LET edits == Deref(res.vappConfig).Property
               eligible == SelectSeq(Declared, Eligible)
           IN  /\ Len(edits) = Len(eligible)
               /\ \A i \in 1..Len(edits) :
                    /\ edits[i].Operation = "edit"
                    /\ edits[i].Info.Key = eligible[i].Key
                    /\ edits[i].Info.Id = eligible[i].Id
                    /\ edits[i].Info.Value = EditValue(eligible[i])
                    /\ DeclaredBy(edits[i].Info.Id) # {}

C13_Witness ==
    /\ pc = "vapp" /\ d0.id # "" /\ VAppChanged /\ res.err = ""
    /\ ~Hidden
    /\ Len(Declared) = 2
    /\ Len(Deref(res.vappConfig).Property) = 1
    /\ Deref(res.vappConfig).Property[1].Info.Value = "web"

\* C14: when the vapp block changed and the machine is not created yet or
\* its live object has no vApp configuration, expandVAppConfig fails if the
\* new configuration sets a property and is a no-op if it sets none.
C14_AbsentVAppSupport ==
    (pc = "vapp" /\ VAppChanged /\ (d0.id = "" \/ live.VAppConfig = Nil)) =>
        /\ res.vappConfig = Nil
        /\ (res.err # "") <=> (Named # EmptyMap)

\* what the source keeps of C14: the machine that is not created yet
AbsentVAppOnNewMachine ==
    (pc = "vapp" /\ VAppChanged /\ d0.id = "") =>
        /\ res.vappConfig = Nil
        /\ (res.err # "") <=> (Named # EmptyMap)

-----------------------------------------------------------------------------
(* Guest networking: buildAndSelectGuestIPs.                               *)
(*                                                                         *)
(* An address as the guest reports it is a text; the text is modelled by   *)
(* the family it spells, the octets it denotes and whether it is the       *)
(* canonical spelling net.IP.String would print.  The empty text has       *)
(* family "none".  A net.IP is the sequence of its octets, four for an     *)
(* address that To4 accepts and sixteen otherwise; nil is Nil.  The        *)
(* operator returns, next to the ResourceData, the connection info and     *)
(* the error, the candidates v4primary and v6primary it held on return.    *)

Text(fam, bytes, canon) == [fam |-> fam, bytes |-> bytes, canon |-> canon]
EmptyText == Text("none", <<>>, TRUE)

\* net.ParseIP: the octets the text spells, nil for a text that is no address
ParseIP(text) == IF text.fam = "none" THEN Nil ELSE Ptr(text.bytes)

\* ip.To4() != nil
To4(ip) == ip # Nil /\ Len(Deref(ip)) = 4

\* ip.String(): the canonical spelling of the octets
String(ip) ==
    Text(IF Len(Deref(ip)) = 4 THEN "v4" ELSE "v6", Deref(ip), TRUE)

RECURSIVE Pow2(_)
Pow2(n) == IF n = 0 THEN 1 ELSE 2 * Pow2(n - 1)

\* net.CIDRMask(ones, bits): nil when ones is out of range
CIDRMask(ones, bits) ==
    IF ones < 0 \/ ones > bits THEN Nil
    ELSE Ptr([i \in 1..(bits \div 8) |->
                LET n == ones - 8 * (i - 1)
                IN  IF n >= 8 THEN 255
                    ELSE IF n <= 0 THEN 0
                    ELSE 256 - Pow2(8 - n)])

\* b & m for a mask octet m of the form 256 - 2^k
AndOctet(b, m) == b - (b % (256 - m))

\* ip.Mask(mask): nil when the lengths do not fit
Mask(ip, mask) ==
    IF ip = Nil \/ mask = Nil THEN Nil
    ELSE IF Len(Deref(ip)) # Len(Deref(mask)) THEN Nil
    ELSE Ptr([i \in 1..Len(Deref(ip)) |-> AndOctet(Deref(ip)[i], Deref(mask)[i])])

\* ip.Equal(x): two nil addresses are equal
Equal(ip, x) == ip = x

\* lines 48-59: the gateways of the default routes, the last route winning
RECURSIVE Routes(_, _, _)
Routes(routes, i, gw) ==
    IF i > Len(routes) THEN gw
    ELSE LET r == routes[i]
         IN  Routes(routes, i + 1,
                    IF r.Network = "0.0.0.0"
                    THEN [gw EXCEPT !.v4gw = ParseIP(r.Gateway.IpAddress)]
                    ELSE IF r.Network = "::"
                    THEN [gw EXCEPT !.v6gw = ParseIP(r.Gateway.IpAddress)]
                    ELSE gw)

RECURSIVE Gateways(_, _, _)
Gateways(ipStack, i, gw) ==
    IF i > Len(ipStack) THEN gw
    ELSE Gateways(ipStack, i + 1,
                  IF ipStack[i].IpRouteConfig # Nil
                  THEN Routes(Deref(ipStack[i].IpRouteConfig).IpRoute, 1, gw)
                  ELSE gw)

\* lines 65-67: sort.Slice by DeviceConfigId; for the short slices of a guest
\* report the library sorts by insertion, which keeps equal ids in order
RECURSIVE InsertNic(_, _)
InsertNic(sorted, n) ==
    IF sorted = <<>> THEN <<n>>
    ELSE IF n.DeviceConfigId < sorted[Len(sorted)].DeviceConfigId
    THEN Append(InsertNic(SubSeq(sorted, 1, Len(sorted) - 1), n), sorted[Len(sorted)])
    ELSE Append(sorted, n)

RECURSIVE SortNet(_, _, _)
SortNet(net, i, sorted) ==
    IF i > Len(net) THEN sorted
    ELSE SortNet(net, i + 1, InsertNic(sorted, net[i]))

VisitAddress_LastMatch(addr, mac, gw, acc) ==
    LET ip == ParseIP(addr.IpAddress)
    IN  IF To4(ip)
        THEN LET mask == CIDRMask(addr.PrefixLength, 32)
             IN  [acc EXCEPT
                    !.v4net2addrs[mac] = Append(@, addr.IpAddress),
                    !.v4primary =
                        IF /\ gw.v4gw # Nil
                           /\ Equal(Mask(ip, mask), Mask(gw.v4gw, mask))
                        THEN ip ELSE @]
        ELSE LET mask == CIDRMask(addr.PrefixLength, 128)
             IN  [acc EXCEPT
                    !.v6net2addrs[mac] = Append(@, addr.IpAddress),
                    !.v6primary =
                        IF /\ gw.v6gw # Nil
                           /\ Equal(Mask(ip, mask), Mask(gw.v6gw, mask))
                        THEN ip ELSE @]

\* lines 76-92: one address of an interface
VisitAddress(addr, mac, gw, acc) ==
    LET ip == ParseIP(addr.IpAddress)
    IN  IF To4(ip)
        THEN LET mask == CIDRMask(addr.PrefixLength, 32)
             IN  [acc EXCEPT
                    !.v4net2addrs[mac] = Append(@, addr.IpAddress),
                    !.v4primary =
                        IF /\ gw.v4gw # Nil
                           /\ Equal(Mask(ip, mask), Mask(gw.v4gw, mask))
                           /\ acc.v4primary = Nil
                        THEN ip ELSE @]
        ELSE LET mask == CIDRMask(addr.PrefixLength, 128)
             IN  [acc EXCEPT
                    !.v6net2addrs[mac] = Append(@, addr.IpAddress),
                    !.v6primary =
                        IF /\ gw.v6gw # Nil
                           /\ Equal(Mask(ip, mask), Mask(gw.v6gw, mask))
                           /\ acc.v6primary = Nil
                        THEN ip ELSE @]

RECURSIVE VisitAddresses(_, _, _, _, _)
VisitAddresses(list, i, mac, gw, acc) ==
    IF i > Len(list) THEN acc
    ELSE Then(VisitAddress(list[i], mac, gw, acc), LAMBDA a :
            VisitAddresses(list, i + 1, mac, gw, a))

\* lines 71-94: the interfaces in sorted order
RECURSIVE VisitNet(_, _, _, _)
VisitNet(net, i, gw, acc) ==
    IF i > Len(net) THEN acc
    ELSE LET n == net[i]
         IN  IF n.IpConfig # Nil
             THEN Then([acc EXCEPT
                          !.deviceMacAddresses = Append(@, n.MacAddress),
                          !.v4net2addrs = (n.MacAddress :> <<>>) @@ @,
                          !.v6net2addrs = (n.MacAddress :> <<>>) @@ @],
                       LAMBDA a :
                  Then(VisitAddresses(Deref(n.IpConfig).IpAddress, 1, n.MacAddress, gw, a),
                       LAMBDA b : VisitNet(net, i + 1, gw, b)))
             ELSE VisitNet(net, i + 1, gw, acc)

\* lines 96-99
RECURSIVE CollectAddrs(_, _, _)
CollectAddrs(acc, i, addrs) ==
    IF i > Len(acc.deviceMacAddresses) THEN addrs
    ELSE LET deviceMacAddress == acc.deviceMacAddresses[i]
         IN  CollectAddrs(acc, i + 1,
                          addrs \o acc.v4net2addrs[deviceMacAddress]
                                \o acc.v6net2addrs[deviceMacAddress])

NoConnInfo == [type |-> "", host |-> EmptyText]

buildAndSelectGuestIPs_V6First(rd, guest, conn) ==
    Then(Gateways(guest.IpStack, 1, [v4gw |-> Nil, v6gw |-> Nil]), LAMBDA gw :
    Then(SortNet(guest.Net, 1, <<>>), LAMBDA net :
    Then(VisitNet(net, 1, gw,
                  [deviceMacAddresses |-> <<>>, v4net2addrs |-> EmptyMap,
                   v6net2addrs |-> EmptyMap, v4primary |-> Nil, v6primary |-> Nil]),
         LAMBDA acc :
    Then(CollectAddrs(acc, 1, <<>>), LAMBDA structured :
    LET addrs == IF Len(structured) < 1 /\ guest.IpAddress # EmptyText
                 THEN Append(structured, guest.IpAddress)
                 ELSE structured
        primary == IF acc.v6primary # Nil THEN String(acc.v6primary)
                   ELSE IF acc.v4primary # Nil THEN String(acc.v4primary)
                   ELSE addrs[1]
    IN  IF Len(addrs) < 1
        THEN [d |-> Set(rd, "guest_ip_addresses", addrs), conn |-> conn, err |-> "",
              v4primary |-> acc.v4primary, v6primary |-> acc.v6primary]
        ELSE [d |-> Set(Set(rd, "default_ip_address", primary),
                        "guest_ip_addresses", addrs),
              conn |-> [type |-> "ssh", host |-> primary],
              err |-> "",
              v4primary |-> acc.v4primary, v6primary |-> acc.v6primary]))))

buildAndSelectGuestIPs(rd, guest, conn) ==
    Then(Gateways(guest.IpStack, 1, [v4gw |-> Nil, v6gw |-> Nil]), LAMBDA gw :
    Then(SortNet(guest.Net, 1, <<>>), LAMBDA net :
    Then(VisitNet(net, 1, gw,
                  [deviceMacAddresses |-> <<>>, v4net2addrs |-> EmptyMap,
                   v6net2addrs |-> EmptyMap, v4primary |-> Nil, v6primary |-> Nil]),
         LAMBDA acc :
    Then(CollectAddrs(acc, 1, <<>>), LAMBDA structured :
    LET addrs == IF Len(structured) < 1 /\ guest.IpAddress # EmptyText
                 THEN Append(structured, guest.IpAddress)
                 ELSE structured
        primary == IF acc.v4primary # Nil THEN String(acc.v4primary)
                   ELSE IF acc.v6primary # Nil THEN String(acc.v6primary)
                   ELSE addrs[1]
    IN  IF Len(addrs) < 1
        THEN [d |-> Set(rd, "guest_ip_addresses", addrs), conn |-> conn, err |-> "",
              v4primary |-> acc.v4primary, v6primary |-> acc.v6primary]
        ELSE [d |-> Set(Set(rd, "default_ip_address", primary),
                        "guest_ip_addresses", addrs),
              conn |-> [type |-> "ssh", host |-> primary],
              err |-> "",
              v4primary |-> acc.v4primary, v6primary |-> acc.v6primary]))))

-----------------------------------------------------------------------------
(* SpecGuest: reads of the guest report into one resource record.  The     *)
(* first report is any report of the palette; after a read the record is   *)
(* saved and a later report arrives.                                       *)

MaxReads == 2

V6(last) == <<32, 1, 13, 184, 0, 0, 0, 0, 0, 0, 0, 0, 0, 0, 0, last>>

GuestAddress(fam, bytes, prefix) ==
    [IpAddress |-> Text(fam, bytes, TRUE), PrefixLength |-> prefix]

\* an address the guest spells otherwise than net.IP.String does
Unabbreviated(fam, bytes, prefix) ==
    [IpAddress |-> Text(fam, bytes, FALSE), PrefixLength |-> prefix]

Addresses ==
    {GuestAddress("v4", <<10, 0, 0, 5>>, 24),
     GuestAddress("v4", <<10, 0, 0, 6>>, 24),
     GuestAddress("v4", <<192, 168, 1, 5>>, 24),
     GuestAddress("v6", V6(5), 64),
     Unabbreviated("v6", V6(6), 64)}

AddressLists ==
    {<<>>} \cup {<<a>> : a \in Addresses}
           \cup {<<p[1], p[2]>> : p \in {q \in Addresses \X Addresses : q[1] # q[2]}}

IpConfigs == {Nil} \cup {Ptr([IpAddress |-> l]) : l \in AddressLists}

Macs == {"00:50:56:00:00:01", "00:50:56:00:00:02"}

Nic(id, mac, ipConfig) ==
    [DeviceConfigId |-> id, MacAddress |-> mac, IpConfig |-> ipConfig]

NetReports ==
    {<<>>}
    \cup {<<Nic(4000, "00:50:56:00:00:01", c)>> : c \in IpConfigs}
    \cup {<<Nic(ids[1], "00:50:56:00:00:01", c1), Nic(ids[2], mac, c2)>> :
            ids \in {<<4000, 4001>>, <<4001, 4000>>, <<4000, 4000>>},
            mac \in Macs, c1 \in IpConfigs, c2 \in IpConfigs}

Route(network, fam, bytes) ==
    [Network |-> network, Gateway |-> [IpAddress |-> Text(fam, bytes, TRUE)]]

Gateway4 == Route("0.0.0.0", "v4", <<10, 0, 0, 1>>)
Gateway6 == Route("::", "v6", V6(1))

IpStacks ==
    {<<>>,
     <<[IpRouteConfig |-> Nil]>>,
     <<[IpRouteConfig |-> Ptr([IpRoute |-> <<Gateway4>>])]>>,
     <<[IpRouteConfig |-> Ptr([IpRoute |-> <<Route("10.0.0.0", "v4", <<0, 0, 0, 0>>),
                                            Gateway6>>])]>>,
     <<[IpRouteConfig |-> Ptr([IpRoute |-> <<Route("0.0.0.0", "v4", <<192, 168, 1, 1>>)>>])],
       [IpRouteConfig |-> Ptr([IpRoute |-> <<Gateway4, Gateway6>>])]>>}

LegacyAddresses == {EmptyText, Text("v4", <<10, 0, 0, 9>>, TRUE)}

GuestInfo(ipStack, net, ipAddress) ==
    [IpStack |-> ipStack, Net |-> net, IpAddress |-> ipAddress]

GuestReports ==
    {GuestInfo(st, net, l) : st \in IpStacks, net \in NetReports, l \in LegacyAddresses}

\* the reports of a later refresh: nothing, the legacy field only, one address
LaterReports ==
    {GuestInfo(<<>>, <<>>, l) : l \in LegacyAddresses}
    \cup {GuestInfo(<<>>,
                    <<Nic(4000, "00:50:56:00:00:01",
                          Ptr([IpAddress |-> <<GuestAddress("v4", <<192, 168, 1, 5>>, 24)>>]))>>,
                    EmptyText)}

GuestData ==
    [id     |-> "vm-1",
     state  |-> [default_ip_address |-> EmptyText, guest_ip_addresses |-> <<>>],
     config |-> [default_ip_address |-> EmptyText, guest_ip_addresses |-> <<>>],
     set    |-> EmptyMap]

InitGuest ==
    /\ d = GuestData
    /\ d0 = d
    /\ client = NoClient
    /\ live \in GuestReports
    /\ iter = NoIter
    /\ pc = "start"
    /\ obj = [conn |-> NoConnInfo, v4primary |-> Nil, v6primary |-> Nil]
    /\ res = NoRes

\* buildAndSelectGuestIPs(d, guest) during a read
ReadGuest ==
    /\ pc = "start"
    /\ \E r \in {buildAndSelectGuestIPs(d, live, obj.conn)} :
        /\ d' = r.d
        /\ obj' = [conn |-> r.conn, v4primary |-> r.v4primary, v6primary |-> r.v6primary]
        /\ res' = [res EXCEPT !.err = r.err, !.step = @ + 1]
    /\ pc' = "read"
    /\ UNCHANGED <<d0, client, live, iter>>

\* the record is saved, and the next refresh sees a later report
Refresh ==
    /\ pc = "read"
    /\ res.step < MaxReads
    /\ d' = ReloadState(d)
    /\ d0' = d'
    /\ live' \in LaterReports
    /\ pc' = "start"
    /\ UNCHANGED <<client, iter, obj, res>>

NextGuest == ReadGuest \/ Refresh

SpecGuest == InitGuest /\ [][NextGuest]_vars

\* what the read recorded
DefaultIP == Get(d, "default_ip_address")
GuestIPs == Get(d, "guest_ip_addresses")

\* the address a text denotes
Denotes(text) == [fam |-> text.fam, bytes |-> text.bytes]

\* the reported addresses: <<n, k>> is the k-th address of the n-th interface
Positions ==
    {p \in (1..Len(live.Net)) \X (1..2) :
        /\ live.Net[p[1]].IpConfig # Nil
        /\ p[2] <= Len(Deref(live.Net[p[1]].IpConfig).IpAddress)}

AddressAt(p) == Deref(live.Net[p[1]].IpConfig).IpAddress[p[2]]

\* ascending DeviceConfigId, equal ids in reported order
NicBefore(n, m) ==
    \/ live.Net[n].DeviceConfigId < live.Net[m].DeviceConfigId
    \/ live.Net[n].DeviceConfigId = live.Net[m].DeviceConfigId /\ n < m

Visited(p, q) == NicBefore(p[1], q[1]) \/ (p[1] = q[1] /\ p[2] < q[2])

\* the default routes of the report: <<s, r>> is the r-th route of stack s
DefaultRoutes(network) ==
    {x \in (1..Len(live.IpStack)) \X (1..2) :
        /\ live.IpStack[x[1]].IpRouteConfig # Nil
        /\ x[2] <= Len(Deref(live.IpStack[x[1]].IpRouteConfig).IpRoute)
        /\ Deref(live.IpStack[x[1]].IpRouteConfig).IpRoute[x[2]].Network = network}

DetectedGateway(network) ==
    LET x == CHOOSE y \in DefaultRoutes(network) :
                \A z \in DefaultRoutes(network) :
                    z[1] < y[1] \/ (z[1] = y[1] /\ z[2] <= y[2])
    IN  Deref(live.IpStack[x[1]].IpRouteConfig).IpRoute[x[2]].Gateway.IpAddress

\* the first prefix bits of the two octet strings agree
SameNetwork(a, g, prefix) ==
    \A i \in 1..Len(a) :
        LET n == prefix - 8 * (i - 1)
            keep == IF n >= 8 THEN 8 ELSE IF n <= 0 THEN 0 ELSE n
        IN  a[i] \div Pow2(8 - keep) = g[i] \div Pow2(8 - keep)

FamilyRoute(fam) == IF fam = "v4" THEN "0.0.0.0" ELSE "::"

OnGatewayNetwork(p, fam) ==
    /\ AddressAt(p).IpAddress.fam = fam
    /\ DefaultRoutes(FamilyRoute(fam)) # {}
    /\ DetectedGateway(FamilyRoute(fam)).fam = fam
    /\ SameNetwork(AddressAt(p).IpAddress.bytes,
                   DetectedGateway(FamilyRoute(fam)).bytes,
                   AddressAt(p).PrefixLength)

Matching(fam) == {p \in Positions : OnGatewayNetwork(p, fam)}

FirstMatch(fam) ==
    CHOOSE p \in Matching(fam) : \A q \in Matching(fam) \ {p} : Visited(p, q)

\* C15: when at least one address is found, default_ip_address is the IPv4
\* address on the gateway's network if there is one, else the IPv6 one if
\* there is one, else the first address of the list.
C15_PrimaryPreference ==
    (pc = "read" /\ Len(GuestIPs) >= 1) =>
        IF Matching("v4") # {}
        THEN Denotes(DefaultIP) = Denotes(AddressAt(FirstMatch("v4")).IpAddress)
        ELSE IF Matching("v6") # {}
        THEN Denotes(DefaultIP) = Denotes(AddressAt(FirstMatch("v6")).IpAddress)
        ELSE DefaultIP = GuestIPs[1]

\* an IPv4 address on the second device wins over an IPv6 one on the first
C15_Witness ==
    /\ pc = "read" /\ Len(GuestIPs) >= 1
    /\ Matching("v4") # {} /\ Matching("v6") # {}
    /\ \A p \in Matching("v4") : \E q \in Matching("v6") : Visited(q, p)
    /\ DefaultIP.fam = "v4"

\* C16: each family's candidate is the first address, by ascending
\* DeviceConfigId and reported order, on the network of that family's
\* detected default gateway; there is none without a gateway.
C16_FirstMatchWins ==
    pc = "read" =>
        /\ obj.v4primary = IF Matching("v4") # {}
                           THEN Ptr(AddressAt(FirstMatch("v4")).IpAddress.bytes)
                           ELSE Nil
        /\ obj.v6primary = IF Matching("v6") # {}
                           THEN Ptr(AddressAt(FirstMatch("v6")).IpAddress.bytes)
                           ELSE Nil

\* two addresses of a family match, on interfaces reported out of order
C16_Witness ==
    /\ pc = "read"
    /\ Cardinality(Matching("v4")) = 2
    /\ Len(live.Net) = 2
    /\ live.Net[1].DeviceConfigId > live.Net[2].DeviceConfigId
    /\ \E p \in Matching("v4") : p[1] = 1
    /\ obj.v4primary = Ptr(AddressAt(FirstMatch("v4")).IpAddress.bytes)
    /\ FirstMatch("v4")[1] = 2

\* interface by interface, IPv4 before IPv6, reported order within a family
Listed(p, q) ==
    \/ NicBefore(p[1], q[1])
    \/ /\ p[1] = q[1]
       /\ \/ AddressAt(p).IpAddress.fam = "v4" /\ AddressAt(q).IpAddress.fam = "v6"
          \/ AddressAt(p).IpAddress.fam = AddressAt(q).IpAddress.fam /\ p[2] < q[2]

ExpectedOrder ==
    CHOOSE e \in [1..Cardinality(Positions) -> Positions] :
        \A i, j \in 1..Cardinality(Positions) : i < j => Listed(e[i], e[j])

ExpectedIPs == [i \in 1..Cardinality(Positions) |-> AddressAt(ExpectedOrder[i]).IpAddress]

\* C17: guest_ip_addresses holds every address of every interface with an
\* IP configuration exactly once, by ascending DeviceConfigId, IPv4 before
\* IPv6 within an interface, also when interfaces share a MAC address.
C17_FullAddressList ==
    (pc = "read" /\ Positions # {}) => GuestIPs = ExpectedIPs

DistinctMacs ==
    \A n, m \in 1..Len(live.Net) : live.Net[n].MacAddress = live.Net[m].MacAddress => n = m

\* what the source keeps of C17: the list of a report with distinct MACs
FullAddressListOfDistinctMacs ==
    (pc = "read" /\ Positions # {} /\ DistinctMacs) => GuestIPs = ExpectedIPs

\* C18: a report without structured addresses and without the legacy address
\* leaves, without error, an empty guest_ip_addresses and an empty
\* default_ip_address, whatever earlier reads recorded.
C18_NoAddressesNeverCached ==
    (pc = "read" /\ Positions = {} /\ live.IpAddress = EmptyText) =>
        /\ res.err = ""
        /\ GuestIPs = <<>>
        /\ DefaultIP = EmptyText

\* what the source keeps of C18: the first read of a record
NoAddressesOnFirstRead ==
    (pc = "read" /\ res.step = 1 /\ Positions = {} /\ live.IpAddress = EmptyText) =>
        /\ res.err = ""
        /\ GuestIPs = <<>>
        /\ DefaultIP = EmptyText

\* C19: without structured addresses a populated legacy field is the whole
\* list and the primary; with structured addresses the legacy address is
\* not listed unless an interface reports it too.
C19_LegacyFallback ==
    pc = "read" =>
        /\ (Positions = {} /\ live.IpAddress # EmptyText) =>
                GuestIPs = <<live.IpAddress>> /\ DefaultIP = live.IpAddress
        /\ Positions # {} =>
                \A i \in 1..Len(GuestIPs) :
                    GuestIPs[i] = live.IpAddress =>
                        \E p \in Positions : AddressAt(p).IpAddress = live.IpAddress

\* what the source keeps of C19: reports with distinct MACs
LegacyFallbackOfDistinctMacs ==
    (pc = "read" /\ DistinctMacs) =>
        /\ (Positions = {} /\ live.IpAddress # EmptyText) =>
                GuestIPs = <<live.IpAddress>> /\ DefaultIP = live.IpAddress
        /\ Positions # {} =>
                \A i \in 1..Len(GuestIPs) :
                    GuestIPs[i] = live.IpAddress =>
                        \E p \in Positions : AddressAt(p).IpAddress = live.IpAddress

\* C29: after a read that found at least one address, default_ip_address
\* denotes one of the addresses of guest_ip_addresses, whatever the MAC
\* addresses and the order of the reported interfaces.
C29_PrimaryIsListed ==
    (pc = "read" /\ Len(GuestIPs) >= 1) =>
        \E i \in 1..Len(GuestIPs) : Denotes(GuestIPs[i]) = Denotes(DefaultIP)

\* what the source keeps of C29: the same for reports whose interfaces have
\* distinct MAC addresses
PrimaryIsListedOfDistinctMacs ==
    (pc = "read" /\ Len(GuestIPs) >= 1 /\ DistinctMacs) =>
        \E i \in 1..Len(GuestIPs) : Denotes(GuestIPs[i]) = Denotes(DefaultIP)

-----------------------------------------------------------------------------
(* SpecAbsent: flattenVirtualMachineConfigInfo over live configurations    *)
(* in which each optional sub-object is present or absent, into a record   *)
(* that holds values of an earlier read.                                   *)

OptionalParts ==
    {"Tools", "BootOptions", "CpuAllocation", "MemoryAllocation",
     "LatencySensitivity", "VAppConfig", "MemoryReservationLockedToMax"}

\* the live machine with every optional sub-object populated
FullLive ==
    [LiveVM EXCEPT
        !.VAppConfig = Ptr([Property |-> <<VAppProperty(0, "hostname", "", TRUE, "web")>>,
                            OvfEnvironmentTransport |-> <<"iso">>]),
        !.MemoryReservationLockedToMax = Ptr(TRUE),
        !.LatencySensitivity = Ptr([Level |-> "high"]),
        !.BootOptions = Ptr([Deref(LiveVM.BootOptions) EXCEPT !.BootDelay = 5000])]

\* the live machine that reports only the sub-objects of present
PartialLive(present) ==
    [f \in DOMAIN FullLive |->
        IF f \in OptionalParts /\ f \notin present THEN Nil ELSE FullLive[f]]

\* the record of an earlier read
EarlierData(lockedToMax, transport) ==
    [id     |-> "vm-1",
     state  |-> [RecordedVM EXCEPT !.memory_reservation_locked_to_max = lockedToMax,
                                   !.vapp_transport = transport],
     config |-> [RecordedVM EXCEPT !.memory_reservation_locked_to_max = lockedToMax,
                                   !.vapp_transport = transport],
     set    |-> EmptyMap]

InitAbsent ==
    /\ \E lockedToMax \in BOOLEAN, transport \in {<<>>, <<"iso">>} :
        d = EarlierData(lockedToMax, transport)
    /\ d0 = d
    /\ client \in DiffVersions
    /\ \E present \in SUBSET OptionalParts : live = PartialLive(present)
    /\ iter = NoIter
    /\ pc = "start"
    /\ obj = NoObj
    /\ res = NoRes

\* flattenVirtualMachineConfigInfo(d, obj, client)
FlattenInfo ==
    /\ pc = "start"
    /\ \E r \in {flattenVirtualMachineConfigInfo(d, live, client)} :
        /\ d' = r.d
        /\ res' = [res EXCEPT !.panic = r.panic]
    /\ pc' = "flattened"
    /\ UNCHANGED <<d0, client, live, iter, obj>>

NextAbsent == FlattenInfo

SpecAbsent == InitAbsent /\ [][NextAbsent]_vars

\* the recorded fields that belong to an optional sub-object
PartFields(part) ==
    CASE part = "Tools" -> {"sync_time_with_host", "tools_upgrade_policy"}
      [] part = "BootOptions" -> {"boot_delay", "boot_retry_delay"}
      [] part = "CpuAllocation" -> {"cpu_limit", "cpu_reservation", "cpu_share_level"}
      [] part = "MemoryAllocation" ->
            {"memory_limit", "memory_reservation", "memory_share_level"}
      [] part = "LatencySensitivity" -> {"latency_sensitivity"}
      [] part = "VAppConfig" -> {"vapp_transport"}
      [] part = "MemoryReservationLockedToMax" -> {"memory_reservation_locked_to_max"}

\* C20: flattenVirtualMachineConfigInfo completes whichever optional
\* sub-objects are absent, writes the fields of the present ones and leaves
\* the fields of the absent ones unwritten.
C20_AbsentPartsLeftUnset ==
    pc = "flattened" =>
        /\ ~res.panic
        /\ \A part \in OptionalParts :
            IF live[part] = Nil
            THEN \A k \in PartFields(part) : ~Written(k)
            ELSE \A k \in PartFields(part) : Written(k)

\* what the source keeps of C20: an absent latency sensitivity is skipped,
\* and the present sub-objects are written
AbsentLatencySkipped ==
    (pc = "flattened" /\ ~res.panic) =>
        \A part \in OptionalParts :
            /\ live[part] # Nil => \A k \in PartFields(part) : Written(k)
            /\ (part = "LatencySensitivity" /\ live[part] = Nil) =>
                    ~Written("latency_sensitivity")

-----------------------------------------------------------------------------
(* Host virtual NIC resource (src/vsphere/resource_vsphere_vnic.go).       *)
(* A Go string that the source takes apart (an entry of ipv6.addresses) is *)
(* a sequence of one-character strings; the other strings are opaque.      *)

RECURSIVE SplitFrom(_, _, _, _)
SplitFrom(s, i, cur, parts) ==
    IF i > Len(s) THEN Append(parts, cur)
    ELSE IF s[i] = "/" THEN SplitFrom(s, i + 1, <<>>, Append(parts, cur))
    ELSE SplitFrom(s, i + 1, Append(cur, s[i]), parts)

\* strings.Split(s, "/")
Split(s) == SplitFrom(s, 1, <<>>, <<>>)

\* strings.ToLower over the letters an address can hold
ToLower(s) ==
    [i \in 1..Len(s) |->
        CASE s[i] = "A" -> "a" [] s[i] = "B" -> "b" [] s[i] = "C" -> "c"
          [] s[i] = "D" -> "d" [] s[i] = "E" -> "e" [] s[i] = "F" -> "f"
          [] OTHER -> s[i]]

DecimalDigits == <<"0", "1", "2", "3", "4", "5", "6", "7", "8", "9">>

DigitValue(c) == (CHOOSE i \in 1..10 : DecimalDigits[i] = c) - 1

IsDigit(c) == \E i \in 1..10 : DecimalDigits[i] = c

\* the largest value of bitSize 32
MaxInt32 == 2147483647

RECURSIVE ParseDigits(_, _, _, _)
ParseDigits(s, i, base, acc) ==
    IF i > Len(s) THEN [val |-> acc, err |-> FALSE]
    ELSE IF ~IsDigit(s[i]) \/ DigitValue(s[i]) >= base
            \/ acc > (MaxInt32 - DigitValue(s[i])) \div base
         THEN [val |-> 0, err |-> TRUE]
         ELSE ParseDigits(s, i + 1, base, acc * base + DigitValue(s[i]))

\* strconv.ParseInt(s, 0, 32) for unsigned text without "0x", "0b", "0o"
\* or underscores: decimal, or octal after a leading zero
ParseInt(s) ==
    IF s = <<>> THEN [val |-> 0, err |-> TRUE]
    ELSE IF Len(s) > 1 /\ s[1] = "0" THEN ParseDigits(s, 2, 8, 0)
    ELSE ParseDigits(s, 1, 10, 0)

RECURSIVE Itoa(_)
\* the %d verb of fmt.Sprintf for a non-negative integer
Itoa(n) == IF n < 10 THEN <<DecimalDigits[n + 1]>>
           ELSE Append(Itoa(n \div 10), DecimalDigits[(n % 10) + 1])

\* schema.Set.List(): the members in the order of their hash codes
ListOf(set, order) == SelectSeq(order, LAMBDA x : x \in set)

\* d.GetOk("ipv4.0") / d.GetOk("ipv6.0"): the block is configured
GetOkBlock(rd, key) == Get(rd, key) # Nil

\* d.GetChange("ipv6.0.addresses")
GetChangeAddresses(rd) ==
    LET old == rd.state["ipv6"]
        newValue == Get(rd, "ipv6")
    IN  <<IF old = Nil THEN <<>> ELSE Deref(old).addresses,
          IF newValue = Nil THEN <<>> ELSE Deref(newValue).addresses>>

InList(list, x) == \E i \in 1..Len(list) : list[i] = x

\* lines 523-534 / 537-548: the entries of list that other does not hold
NotFoundIn(list, other) == SelectSeq(list, LAMBDA x : ~InList(other, x))

HostIpConfigIpV6Address(addr, prefix, operation) ==
    [IpAddress |-> ToLower(addr), PrefixLength |-> prefix,
     Origin |-> "manual", Operation |-> operation]

RECURSIVE ParseAddresses(_, _, _, _)
\* lines 552-566 / 568-582: one HostIpConfigIpV6Address per entry of list;
\* addrParts[1] of an entry without "/" is an index out of range
ParseAddresses(list, i, operation, addrs) ==
    IF i > Len(list) THEN [addrs |-> addrs, err |-> FALSE, panic |-> FALSE]
    ELSE LET addrParts == Split(list[i])
         IN  IF Len(addrParts) < 2
             THEN [addrs |-> addrs, err |-> FALSE, panic |-> TRUE]
             ELSE IF ParseInt(addrParts[2]).err
             THEN [addrs |-> addrs, err |-> TRUE, panic |-> FALSE]
             ELSE ParseAddresses(list, i + 1, operation,
                    Append(addrs, HostIpConfigIpV6Address(addrParts[1],
                                    ParseInt(addrParts[2]).val, operation)))

ZeroIpConfig == [Dhcp |-> FALSE, IpAddress |-> "", SubnetMask |-> "", IpV6Config |-> Nil]

ZeroRouteConfig == [DefaultGateway |-> "", IpV6DefaultGateway |-> ""]

\* lines 488-503
NicIpv4(rd, ipConfig, routeConfig) ==
    IF ~GetOkBlock(rd, "ipv4") THEN [ip |-> ipConfig, route |-> routeConfig]
    ELSE LET ipv4Config == Deref(Get(rd, "ipv4"))
         IN  IF ipv4Config.dhcp
             THEN [ip |-> [ipConfig EXCEPT !.Dhcp = TRUE], route |-> routeConfig]
             ELSE IF ipv4Config.ip # "" /\ ipv4Config.netmask # ""
             THEN [ip |-> [ipConfig EXCEPT !.IpAddress = ipv4Config.ip,
                                           !.SubnetMask = ipv4Config.netmask],
                   route |-> [routeConfig EXCEPT !.DefaultGateway = ipv4Config.gw]]
             ELSE [ip |-> ipConfig, route |-> routeConfig]

\* lines 505-587
NicIpv6(rd, ipConfig, routeConfig) ==
    IF ~GetOkBlock(rd, "ipv6")
    THEN [ip |-> ipConfig, route |-> routeConfig, err |-> FALSE, panic |-> FALSE]
    ELSE LET ipv6Config == Deref(Get(rd, "ipv6"))
             oldAddrs == GetChangeAddresses(rd)[1]
             newAddrs == GetChangeAddresses(rd)[2]
             \* make([]string, len(newAddrs)) followed by the appends
             addAddrs == [i \in 1..Len(newAddrs) |-> <<>>] \o NotFoundIn(newAddrs, oldAddrs)
             removeAddrs == NotFoundIn(oldAddrs, newAddrs)
             removed == ParseAddresses(removeAddrs, 1, "remove", <<>>)
             \* the second loop ranges over newAddrs, not over addAddrs
             added == IF removed.err \/ removed.panic THEN removed
                      ELSE ParseAddresses(newAddrs, 1, "add", removed.addrs)
             parsed == IF Len(removeAddrs) > 0 \/ Len(addAddrs) > 0
                       THEN added
                       ELSE [addrs |-> <<>>, err |-> FALSE, panic |-> FALSE]
         IN  [ip |-> [ipConfig EXCEPT !.IpV6Config =
                        Ptr([DhcpV6Enabled |-> Ptr(ipv6Config.dhcp),
                             AutoConfigurationEnabled |-> Ptr(ipv6Config.autoconfig),
                             IpV6Address |-> parsed.addrs])],
              route |-> [routeConfig EXCEPT !.IpV6DefaultGateway = ipv6Config.gw],
              err |-> parsed.err, panic |-> parsed.panic]

NoNicSpec == [spec |-> Nil, err |-> TRUE, panic |-> FALSE]

\* lines 476-604: the spec once the exclusion test of line 472 has passed
NicSpecOf(rd) ==
    LET portgroup == Get(rd, "portgroup")
        dvp == Get(rd, "distributed_switch_port")
        dpg == Get(rd, "distributed_port_group")
    IN  Then(NicIpv4(rd, ZeroIpConfig, ZeroRouteConfig), LAMBDA v4 :
        Then(NicIpv6(rd, v4.ip, v4.route), LAMBDA v6 :
            IF v6.panic THEN [NoNicSpec EXCEPT !.err = FALSE, !.panic = TRUE]
            ELSE IF v6.err THEN NoNicSpec
            ELSE [spec |-> Ptr([Ip |-> v6.ip,
                                Mac |-> Get(rd, "mac"),
                                Mtu |-> Get(rd, "mtu"),
                                Portgroup |-> portgroup,
                                DistributedVirtualPort |->
                                    IF portgroup # "" THEN Nil
                                    ELSE Ptr([SwitchUuid |-> dvp, PortgroupKey |-> dpg]),
                                IpRouteSpec |-> Ptr([IpRouteConfig |-> v6.route]),
                                NetStackInstanceKey |-> Get(rd, "netstack")]),
                  err |-> FALSE, panic |-> FALSE]))

\* a variant without the exclusion test
getNicSpecFromSchema_NoExclusion(rd) == NicSpecOf(rd)

getNicSpecFromSchema(rd) ==
    IF Get(rd, "portgroup") # "" /\ Get(rd, "distributed_switch_port") # ""
    THEN NoNicSpec
    ELSE NicSpecOf(rd)

-----------------------------------------------------------------------------
(* The handlers of the vNIC resource thread a run record through their     *)
(* statements: the ResourceData (d), the host (host), the remote calls     *)
(* issued so far (calls), the HostVirtualNicSpec passed to AddVirtualNic   *)
(* or UpdateVirtualNic (sent), the numbers of updateVNic and               *)
(* resourceVsphereNicRead invocations, and how the handler ended.          *)
(* fail is the set of remote calls that return an error when issued.       *)

NicDevice == "vmk1"

StartRun(rd, host) ==
    [d |-> rd, host |-> host, calls |-> <<>>, sent |-> Nil, updates |-> 0, reads |-> 0,
     err |-> FALSE, panic |-> FALSE]

\* a remote call and whether it returned an error
Remote(run, fail, call) ==
    [run EXCEPT !.calls = Append(@, call), !.err = call \in fail]

Stopped(run) == run.err \/ run.panic

\* d.SetId
SetId(rd, id) == [rd EXCEPT !.id = id]

\* fmt.Sprintf("%s_%s", hostID, nicID) and strings.Split(d.Id(), "_")
splitHostIDNicID(rd) == rd.id

\* the host's IPv6 addresses after the operations of a spec
RECURSIVE ApplyOperations(_, _, _)
ApplyOperations(ops, i, current) ==
    IF i > Len(ops) THEN current
    ELSE LET a == [IpAddress |-> ops[i].IpAddress, PrefixLength |-> ops[i].PrefixLength,
                   Origin |-> ops[i].Origin]
         IN  ApplyOperations(ops, i + 1,
                IF ops[i].Operation = "remove"
                THEN SelectSeq(current, LAMBDA x : x # a)
                ELSE IF InList(current, a) THEN current ELSE Append(current, a))

\* the HostVirtualNicSpec the host reports after it accepted spec
HostSpec(prior, spec) ==
    IF spec.Ip.IpV6Config = Nil THEN spec
    ELSE [spec EXCEPT !.Ip.IpV6Config =
            Ptr([Deref(spec.Ip.IpV6Config) EXCEPT !.IpV6Address =
                    ApplyOperations(@, 1, prior)])]

HostAddresses(host) ==
    IF host.vnic = Nil \/ Deref(host.vnic).Spec.Ip.IpV6Config = Nil THEN <<>>
    ELSE Deref(Deref(host.vnic).Spec.Ip.IpV6Config).IpV6Address

HostVirtualNic(host, portgroup, spec) ==
    [Device |-> NicDevice, Portgroup |-> portgroup,
     Spec |-> HostSpec(HostAddresses(host), spec)]

precheckEnableServices(rd) ==
    Get(rd, "netstack") # "defaultTcpipStack" /\ Get(rd, "services") # {}

getHostNetworkSystem(run, fail) ==
    Then(Remote(run, fail, <<"FromID">>), LAMBDA r :
        IF r.err THEN r ELSE Remote(r, fail, <<"NetworkSystem">>))

RECURSIVE DeselectAll(_, _, _, _)
\* lines 380-385
DeselectAll(deleteList, i, run, fail) ==
    IF i > Len(deleteList) THEN run
    ELSE Then(Remote(run, fail, <<"DeselectVnic", deleteList[i]>>), LAMBDA r :
            IF r.err THEN r
            ELSE DeselectAll(deleteList, i + 1,
                    [r EXCEPT !.host.selected = @ \ {deleteList[i]}], fail))

RECURSIVE SelectAll(_, _, _, _)
\* lines 387-392
SelectAll(addList, i, run, fail) ==
    IF i > Len(addList) THEN run
    ELSE Then(Remote(run, fail, <<"SelectVnic", addList[i]>>), LAMBDA r :
            IF r.err THEN r
            ELSE SelectAll(addList, i + 1,
                    [r EXCEPT !.host.selected = @ \cup {addList[i]}], fail))

updateVnicService(run, fail, order) ==
    LET deleteList == ListOf(GetChange(run.d, "services")[1], order)
        addList == ListOf(GetChange(run.d, "services")[2], order)
    IN  Then(Remote(run, fail, <<"FromID">>), LAMBDA h :
            IF h.err THEN h
            ELSE Then(Remote(h, fail, <<"VirtualNicManager">>), LAMBDA m :
                \* line 377 returns nil on this error
                IF m.err THEN [m EXCEPT !.err = FALSE]
                ELSE Then(DeselectAll(deleteList, 1, m, fail), LAMBDA r :
                        IF r.err THEN r ELSE SelectAll(addList, 1, r, fail))))

createVNic(run, fail, order) ==
    IF precheckEnableServices(run.d) THEN [run EXCEPT !.err = TRUE]
    ELSE Then(getNicSpecFromSchema(run.d), LAMBDA nic :
        IF nic.err \/ nic.panic
        THEN [run EXCEPT !.err = nic.err, !.panic = nic.panic]
        ELSE Then(getHostNetworkSystem(run, fail), LAMBDA hns :
            IF hns.err THEN hns
            ELSE Then(Remote([hns EXCEPT !.sent = nic.spec], fail, <<"AddVirtualNic">>), LAMBDA r :
                IF r.err THEN r
                ELSE updateVnicService(
                        [r EXCEPT
                            !.host.vnic = Ptr(HostVirtualNic(r.host, Get(r.d, "portgroup"),
                                                             Deref(nic.spec))),
                            !.d = SetId(@, <<Get(r.d, "host"), NicDevice>>)],
                        fail, order))))

updateVNic(run, fail, order) ==
    IF precheckEnableServices(run.d)
    THEN [run EXCEPT !.updates = @ + 1, !.err = TRUE]
    ELSE Then(getNicSpecFromSchema(run.d), LAMBDA nic :
        IF nic.err \/ nic.panic
        THEN [run EXCEPT !.updates = @ + 1, !.err = nic.err, !.panic = nic.panic]
        ELSE Then(getHostNetworkSystem([run EXCEPT !.updates = @ + 1], fail), LAMBDA hns :
            IF hns.err THEN hns
            ELSE Then(Remote([hns EXCEPT !.sent = nic.spec], fail, <<"UpdateVirtualNic">>), LAMBDA r :
                IF r.err THEN r
                ELSE updateVnicService(
                        [r EXCEPT
                            !.host.vnic = Ptr(HostVirtualNic(r.host, Deref(nic.spec).Portgroup,
                                                             Deref(nic.spec)))],
                        fail, order))))

RECURSIVE FormatAddresses(_, _, _)
\* lines 113-118
FormatAddresses(list, i, addrList) ==
    IF i > Len(list) THEN addrList
    ELSE FormatAddresses(list, i + 1,
            IF list[i].Origin = "manual"
            THEN Append(addrList, list[i].IpAddress \o <<"/">> \o Itoa(list[i].PrefixLength))
            ELSE addrList)

\* lines 75-101
ReadScalars(rd, vnic) ==
    Then(Set(Set(rd, "netstack", vnic.Spec.NetStackInstanceKey), "portgroup", vnic.Portgroup),
    LAMBDA d1 :
    Then(IF vnic.Spec.DistributedVirtualPort # Nil
         THEN Set(Set(d1, "distributed_switch_port",
                        Deref(vnic.Spec.DistributedVirtualPort).SwitchUuid),
                  "distributed_port_group",
                  Deref(vnic.Spec.DistributedVirtualPort).PortgroupKey)
         ELSE d1, LAMBDA d2 :
    Then(Set(Set(d2, "mtu", vnic.Spec.Mtu), "mac", vnic.Spec.Mac), LAMBDA d3 :
        IF vnic.Spec.Ip.IpAddress = "" THEN d3
        ELSE Set(d3, "ipv4",
                Ptr(IF vnic.Spec.Ip.Dhcp
                    THEN [dhcp |-> TRUE, ip |-> "", netmask |-> "", gw |-> ""]
                    ELSE [dhcp |-> FALSE, ip |-> vnic.Spec.Ip.IpAddress,
                          netmask |-> vnic.Spec.Ip.SubnetMask,
                          gw |-> IF vnic.Spec.IpRouteSpec # Nil
                                 THEN Deref(vnic.Spec.IpRouteSpec).IpRouteConfig.DefaultGateway
                                 ELSE ""])))))

\* lines 105-135
ReadIpv6(rd, vnic) ==
    IF vnic.Spec.Ip.IpV6Config = Nil THEN rd
    ELSE LET config == Deref(vnic.Spec.Ip.IpV6Config)
             addrList == FormatAddresses(config.IpV6Address, 1, <<>>)
         IN  IF Len(addrList) = 0 /\ ~Deref(config.DhcpV6Enabled)
                /\ ~Deref(config.AutoConfigurationEnabled)
             THEN Set(rd, "ipv6", Nil)
             ELSE Set(rd, "ipv6",
                    Ptr([dhcp |-> Deref(config.DhcpV6Enabled),
                         autoconfig |-> Deref(config.AutoConfigurationEnabled),
                         addresses |-> addrList,
                         gw |-> IF vnic.Spec.IpRouteSpec # Nil
                                THEN Deref(vnic.Spec.IpRouteSpec).IpRouteConfig.IpV6DefaultGateway
                                ELSE ""]))

getVnicFromHost(run, fail, nicID) ==
    Then(Remote(run, fail, <<"FromID">>), LAMBDA h :
        IF h.err THEN h
        ELSE Then(Remote(h, fail, <<"Properties">>), LAMBDA r :
            IF r.err THEN r
            ELSE [r EXCEPT !.err = r.host.vnic = Nil \/ Deref(r.host.vnic).Device # nicID]))

resourceVsphereNicRead(run, fail) ==
    LET nicID == splitHostIDNicID(run.d)[2]
    IN  Then(getVnicFromHost([run EXCEPT !.reads = @ + 1], fail, nicID), LAMBDA found :
            IF found.err THEN [found EXCEPT !.d = SetId(@, ""), !.err = FALSE]
            ELSE Then([found EXCEPT !.d = ReadIpv6(ReadScalars(@, Deref(found.host.vnic)),
                                                   Deref(found.host.vnic))], LAMBDA r :
                 Then(Remote(r, fail, <<"FromID">>), LAMBDA h :
                    IF h.err THEN h
                    ELSE Then(Remote(h, fail, <<"VirtualNicManager">>), LAMBDA m :
                        IF m.err THEN [m EXCEPT !.err = FALSE]
                        ELSE Then(Remote(m, fail, <<"Info">>), LAMBDA i :
                            IF i.err THEN [i EXCEPT !.err = FALSE]
                            ELSE [i EXCEPT !.d = Set(@, "services", i.host.selected)])))))

resourceVsphereNicCreate(run, fail, order) ==
    Then(createVNic(run, fail, order), LAMBDA r :
        IF Stopped(r) THEN r
        ELSE resourceVsphereNicRead(
                [r EXCEPT !.d = SetId(@, <<Get(r.d, "host"), NicDevice>>)], fail))

UpdateKeys ==
    <<"portgroup", "distributed_switch_port", "distributed_port_group",
      "mac", "mtu", "ipv4", "ipv6", "netstack", "services">>

RECURSIVE UpdateLoop_NoBreak(_, _, _, _)
\* a variant of the loop without the break of line 189
UpdateLoop_NoBreak(i, run, fail, order) ==
    IF i > Len(UpdateKeys) THEN run
    ELSE IF HasChange(run.d, UpdateKeys[i])
    THEN Then(updateVNic(run, fail, order), LAMBDA r :
            IF Stopped(r) THEN r ELSE UpdateLoop_NoBreak(i + 1, r, fail, order))
    ELSE UpdateLoop_NoBreak(i + 1, run, fail, order)

RECURSIVE UpdateLoop(_, _, _, _)
\* lines 181-191
UpdateLoop(i, run, fail, order) ==
    IF i > Len(UpdateKeys) THEN run
    ELSE IF HasChange(run.d, UpdateKeys[i])
    THEN updateVNic(run, fail, order)
    ELSE UpdateLoop(i + 1, run, fail, order)

resourceVsphereNicUpdate(run, fail, order) ==
    Then(UpdateLoop(1, run, fail, order), LAMBDA r :
        IF Stopped(r) THEN r ELSE resourceVsphereNicRead(r, fail))

-----------------------------------------------------------------------------
(* SpecNic: resourceVsphereNicCreate and resourceVsphereNicUpdate over     *)
(* configurations of one vNIC.  live is the host (its virtual NIC and the  *)
(* services selected for it), client the set of failing remote calls, iter *)
(* the order of schema.Set.List, obj the calls issued by the handler.      *)

NicHost == "host-1"
NicId == <<NicHost, NicDevice>>

GoodUpper == <<"F", "E", ":", ":", "1", "/", "6", "4">>
GoodLower == <<"f", "e", ":", ":", "2", "/", "6", "4">>
NoPrefix == <<"f", "e", ":", ":", "3">>
BadPrefix == <<"f", "e", ":", ":", "4", "/", "x">>

NicAddresses == {GoodUpper, GoodLower, NoPrefix, BadPrefix}

NicAddressLists ==
    {<<>>} \cup {<<a>> : a \in NicAddresses}
           \cup {<<p[1], p[2]>> : p \in {q \in NicAddresses \X NicAddresses : q[1] # q[2]}}

Ipv6Block(addresses) ==
    Ptr([dhcp |-> FALSE, autoconfig |-> addresses = <<>>, addresses |-> addresses, gw |-> ""])

Ipv6Blocks == {Nil} \cup {Ipv6Block(l) : l \in NicAddressLists}

\* what a read records: the well-formed entries only
RecordedBlocks ==
    {b \in Ipv6Blocks :
        b # Nil => \A i \in 1..Len(Deref(b).addresses) :
                        Deref(b).addresses[i] \in {GoodUpper, GoodLower}}

Ipv4Dhcp == Ptr([dhcp |-> TRUE, ip |-> "", netmask |-> "", gw |-> ""])

NicServices == {"vmotion", "management"}

ServiceOrders == {<<"vmotion", "management">>, <<"management", "vmotion">>}

NicFailures ==
    {{}} \cup {{<<c>>} : c \in {"FromID", "NetworkSystem", "AddVirtualNic", "UpdateVirtualNic",
                                "VirtualNicManager", "Properties", "Info"}}
         \cup {{<<c, sv>>} : c \in {"DeselectVnic", "SelectVnic"}, sv \in NicServices}

\* a vNIC on a standard portgroup, as recorded after it was read
NicRecorded ==
    [host |-> NicHost, portgroup |-> "pg1", distributed_switch_port |-> "",
     distributed_port_group |-> "", mac |-> "m1", mtu |-> 1500,
     netstack |-> "defaultTcpipStack", services |-> {}, ipv4 |-> Nil, ipv6 |-> Nil]

\* the record before the resource is created
NicUnrecorded ==
    [host |-> "", portgroup |-> "", distributed_switch_port |-> "",
     distributed_port_group |-> "", mac |-> "", mtu |-> 0,
     netstack |-> "", services |-> {}, ipv4 |-> Nil, ipv6 |-> Nil]

NicData(id, old, newValue) ==
    [id |-> id, state |-> old, config |-> newValue, set |-> EmptyMap]

\* the addresses the host holds for a recorded list
RECURSIVE RecordedAddresses(_, _, _)
RecordedAddresses(list, i, out) ==
    IF i > Len(list) THEN out
    ELSE LET addrParts == Split(list[i])
         IN  RecordedAddresses(list, i + 1,
                Append(out, [IpAddress |-> ToLower(addrParts[1]),
                             PrefixLength |-> ParseInt(addrParts[2]).val,
                             Origin |-> "manual"]))

\* the host on which the recorded vNIC lives
HostOf(old) ==
    [vnic |-> Ptr([Device |-> NicDevice, Portgroup |-> old.portgroup,
                   Spec |-> [Ip |-> [Dhcp |-> FALSE, IpAddress |-> "", SubnetMask |-> "",
                                     IpV6Config |->
                                        IF old.ipv6 = Nil THEN Nil
                                        ELSE Ptr([DhcpV6Enabled |-> Ptr(Deref(old.ipv6).dhcp),
                                                  AutoConfigurationEnabled |->
                                                        Ptr(Deref(old.ipv6).autoconfig),
                                                  IpV6Address |->
                                                        RecordedAddresses(Deref(old.ipv6).addresses,
                                                                          1, <<>>)])],
                             Mac |-> old.mac, Mtu |-> old.mtu, Portgroup |-> old.portgroup,
                             DistributedVirtualPort |-> Nil,
                             IpRouteSpec |-> Ptr([IpRouteConfig |-> ZeroRouteConfig]),
                             NetStackInstanceKey |-> old.netstack]]),
     selected |-> old.services]

EmptyHost == [vnic |-> Nil, selected |-> {}]

Attachments == {<<"pg1", "">>, <<"", "dvs1">>, <<"pg1", "dvs1">>}

\* configurations that vary the ipv6 address lists and the attachment
NicAddressCases ==
    {NicData(NicId, [NicRecorded EXCEPT !.ipv6 = old],
                    [NicRecorded EXCEPT !.ipv6 = newValue, !.portgroup = at[1],
                                        !.distributed_switch_port = at[2]]) :
        old \in RecordedBlocks, newValue \in Ipv6Blocks, at \in Attachments}
    \cup
    {NicData("", NicUnrecorded,
                 [NicRecorded EXCEPT !.ipv6 = newValue, !.portgroup = at[1],
                                     !.distributed_switch_port = at[2]]) :
        newValue \in Ipv6Blocks, at \in Attachments}

\* configurations that vary the services and the network stack
NicServiceCases ==
    {NicData(NicId, [NicRecorded EXCEPT !.services = old, !.netstack = ns],
                    [NicRecorded EXCEPT !.services = newValue, !.netstack = ns]) :
        old \in SUBSET NicServices, newValue \in SUBSET NicServices,
        ns \in {"defaultTcpipStack", "vmotion"}}
    \cup
    {NicData("", NicUnrecorded, [NicRecorded EXCEPT !.services = newValue, !.netstack = ns]) :
        newValue \in SUBSET NicServices, ns \in {"defaultTcpipStack", "vmotion"}}

\* netstack is ForceNew: an update never sees it changed
ChangeableKeys ==
    {"portgroup", "distributed_switch_port", "distributed_port_group",
     "mac", "mtu", "ipv4", "ipv6", "services"}

NicChanged ==
    [host |-> NicHost, portgroup |-> "", distributed_switch_port |-> "dvs1",
     distributed_port_group |-> "dpg1", mac |-> "m2", mtu |-> 9000,
     netstack |-> "defaultTcpipStack", services |-> {"vmotion"}, ipv4 |-> Ipv4Dhcp,
     ipv6 |-> Ipv6Block(<<GoodLower>>)]

\* updates in which exactly the keys of a chosen set change
NicChangeCases ==
    {NicData(NicId, NicRecorded,
             [k \in DOMAIN NicRecorded |-> IF k \in ch THEN NicChanged[k] ELSE NicRecorded[k]]) :
        ch \in SUBSET ChangeableKeys}

InitNic ==
    /\ \/ /\ d \in NicAddressCases
          /\ client = {}
          /\ iter \in ServiceOrders
       \/ /\ d \in NicServiceCases
          /\ client \in NicFailures
          /\ iter \in ServiceOrders
       \/ /\ d \in NicChangeCases
          /\ client \in {{}, {<<"UpdateVirtualNic">>}, {<<"SelectVnic", "vmotion">>}}
          /\ iter = <<"vmotion", "management">>
    /\ d0 = d
    /\ live = IF d.id = "" THEN EmptyHost ELSE HostOf(d.state)
    /\ pc = "start"
    /\ obj = StartRun(d, live)
    /\ res = NoRes

NicReturn(run, at) ==
    /\ d' = run.d
    /\ live' = run.host
    /\ obj' = run
    /\ res' = [res EXCEPT !.err = IF run.err THEN "error" ELSE "", !.panic = run.panic]
    /\ pc' = at
    /\ UNCHANGED <<d0, client, iter>>

NicCreate ==
    /\ pc = "start"
    /\ d.id = ""
    /\ \E run \in {resourceVsphereNicCreate(StartRun(d, live), client, iter)} :
        NicReturn(run, "created")

NicUpdate ==
    /\ pc = "start"
    /\ d.id # ""
    /\ \E run \in {resourceVsphereNicUpdate(StartRun(d, live), client, iter)} :
        NicReturn(run, "updated")

NextNic == NicCreate \/ NicUpdate

SpecNic == InitNic /\ [][NextNic]_vars

\* what the handler read and issued
NewAddresses == IF d0.config["ipv6"] = Nil THEN <<>> ELSE Deref(d0.config["ipv6"]).addresses
OldAddresses == IF d0.state["ipv6"] = Nil THEN <<>> ELSE Deref(d0.state["ipv6"]).addresses

Issued(name) == \E i \in 1..Len(obj.calls) : obj.calls[i][1] = name

HandlerDone == pc \in {"created", "updated"}

\* an entry without a "/", or whose text after the "/" is not a number
Numeric(t) == t # <<>> /\ \A i \in 1..Len(t) : IsDigit(t[i])
Malformed(entry) ==
    \/ \A i \in 1..Len(entry) : entry[i] # "/"
    \/ ~Numeric(Split(entry)[2])

HasMalformed(list) == \E i \in 1..Len(list) : Malformed(list[i])

\* C21: a handler run over an ipv6 address list with a malformed entry
\* (no "/prefix" part, or a prefix that is not a number) ends with an
\* error, does not crash, and issues neither AddVirtualNic nor
\* UpdateVirtualNic.
C21_MalformedAddressRejected ==
    (HandlerDone /\ (HasMalformed(NewAddresses) \/ HasMalformed(OldAddresses))) =>
        /\ res.err # ""
        /\ ~res.panic
        /\ ~Issued("AddVirtualNic")
        /\ ~Issued("UpdateVirtualNic")

\* what the source keeps of C21: a malformed entry never reaches the host,
\* and a prefix that is not a number is reported as an error
MalformedAddressNeverSent ==
    (HandlerDone /\ HasMalformed(NewAddresses)) =>
        /\ res.err # "" \/ res.panic
        /\ ~Issued("AddVirtualNic")
        /\ ~Issued("UpdateVirtualNic")
        /\ (\A i \in 1..Len(NewAddresses) : Len(Split(NewAddresses[i])) >= 2) =>
                (res.err # "" /\ ~res.panic)

BothAttachments ==
    d0.config["portgroup"] # "" /\ d0.config["distributed_switch_port"] # ""

\* C22: with portgroup and distributed_switch_port both non-empty, create
\* and update end with an error, none of AddVirtualNic, UpdateVirtualNic,
\* SelectVnic and DeselectVnic is issued, and on create the ID stays unset.
C22_ExclusiveAttachment ==
    (HandlerDone /\ BothAttachments) =>
        /\ res.err # ""
        /\ \A name \in {"AddVirtualNic", "UpdateVirtualNic", "SelectVnic", "DeselectVnic"} :
                ~Issued(name)
        /\ pc = "created" => d.id = ""

C22_Witness ==
    /\ pc = "created"
    /\ BothAttachments
    /\ NewAddresses = <<GoodLower>>
    /\ res.err # ""
    /\ d.id = ""

AnyChange == \E i \in 1..Len(UpdateKeys) : d0.state[UpdateKeys[i]] # d0.config[UpdateKeys[i]]

ChangeCount ==
    Cardinality({i \in 1..Len(UpdateKeys) : d0.state[UpdateKeys[i]] # d0.config[UpdateKeys[i]]})

\* C25: resourceVsphereNicUpdate invokes updateVNic once when any of the
\* nine keys changed and not at all otherwise; it re-reads the NIC once
\* unless updateVNic failed, in which case the error is returned and the
\* NIC is not read.
C25_SingleUpdate ==
    pc = "updated" =>
        /\ obj.updates = IF AnyChange THEN 1 ELSE 0
        /\ Cardinality({i \in 1..Len(obj.calls) : obj.calls[i][1] = "UpdateVirtualNic"}) <= 1
        /\ IF res.err # "" \/ res.panic THEN obj.reads = 0 ELSE obj.reads = 1
        /\ ~AnyChange => res.err = ""

C25_Witness ==
    /\ pc = "updated"
    /\ ChangeCount >= 3
    /\ obj.updates = 1
    /\ obj.reads = 1
    /\ Issued("UpdateVirtualNic")

\* the address operations of the spec that was sent
SentOperations ==
    IF obj.sent = Nil \/ Deref(obj.sent).Ip.IpV6Config = Nil THEN <<>>
    ELSE Deref(Deref(obj.sent).Ip.IpV6Config).IpV6Address

OperationFor(entry, operation) ==
    [IpAddress |-> ToLower(Split(entry)[1]), PrefixLength |-> ParseInt(Split(entry)[2]).val,
     Origin |-> "manual", Operation |-> operation]

OperationsOf(operation) ==
    {SentOperations[i] : i \in {j \in 1..Len(SentOperations) :
                                    SentOperations[j].Operation = operation}}

OnlyIn(list, other) == {list[i] : i \in {j \in 1..Len(list) : ~InList(other, list[j])}}

\* C26: the spec that is sent holds a "remove" exactly for the addresses
\* of the old list that the new list lacks and an "add" exactly for the
\* addresses of the new list that the old list lacks, so none for an address
\* in both lists and none at all for equal lists.
C26_AddressDelta ==
    (HandlerDone /\ obj.sent # Nil) =>
        /\ OperationsOf("remove") =
                {OperationFor(e, "remove") : e \in OnlyIn(OldAddresses, NewAddresses)}
        /\ OperationsOf("add") =
                {OperationFor(e, "add") : e \in OnlyIn(NewAddresses, OldAddresses)}
        /\ OldAddresses = NewAddresses => SentOperations = <<>>

\* what the source keeps of C26 while the ipv6 block is configured: the
\* removals are exact, and every new address is sent as an "add"
AddressDeltaAddsAll ==
    (HandlerDone /\ obj.sent # Nil /\ d0.config["ipv6"] # Nil) =>
        /\ OperationsOf("remove") =
                {OperationFor(e, "remove") : e \in OnlyIn(OldAddresses, NewAddresses)}
        /\ OperationsOf("add") =
                {OperationFor(NewAddresses[i], "add") : i \in 1..Len(NewAddresses)}

ServiceCalls ==
    SelectSeq(obj.calls, LAMBDA c : c[1] \in {"DeselectVnic", "SelectVnic"})

\* the handler reached updateVnicService
ReachedServices == Issued("AddVirtualNic") \/ Issued("UpdateVirtualNic")

HostAccepted ==
    /\ ReachedServices
    /\ <<"AddVirtualNic">> \notin client
    /\ <<"UpdateVirtualNic">> \notin client

\* C27: every DeselectVnic precedes every SelectVnic; when no call failed
\* the services selected for the NIC are the new configured set; a failing
\* DeselectVnic or SelectVnic is the last one issued and its error is
\* returned.
C27_ServiceReconciliation ==
    HandlerDone =>
        /\ \A i, j \in 1..Len(ServiceCalls) :
                (ServiceCalls[i][1] = "SelectVnic" /\ ServiceCalls[j][1] = "DeselectVnic")
                    => j < i
        /\ (HostAccepted /\ res.err = "") => live.selected = d0.config["services"]
        /\ \A i \in 1..Len(ServiceCalls) :
                ServiceCalls[i] \in client => (i = Len(ServiceCalls) /\ res.err # "")

\* what the source keeps of C27: the same, while the host hands out its
\* VirtualNicManager and the NIC host lookup succeeds
ServiceReconciliationWithManager ==
    (HandlerDone /\ <<"VirtualNicManager">> \notin client) =>
        /\ \A i, j \in 1..Len(ServiceCalls) :
                (ServiceCalls[i][1] = "SelectVnic" /\ ServiceCalls[j][1] = "DeselectVnic")
                    => j < i
        /\ (HostAccepted /\ res.err = "") => live.selected = d0.config["services"]
        /\ \A i \in 1..Len(ServiceCalls) :
                ServiceCalls[i] \in client => (i = Len(ServiceCalls) /\ res.err # "")

-----------------------------------------------------------------------------
(* Virtual machine snapshot resource (src/unnamed/part_002).  An Optional  *)
(* bool of the configuration is nil when it is not set; d.Get reads false  *)
(* for it, and d.GetOk misses on false.  outcome gives how each remote     *)
(* call ends: "ok", "error" or, for a wait, "timeout".                     *)

GetBoolValue(rd, key) == IF Get(rd, key) = Nil THEN FALSE ELSE Deref(Get(rd, key))

\* d.GetOk on a TypeBool key
GetOk(rd, key) == [v |-> GetBoolValue(rd, key), ok |-> GetBoolValue(rd, key) # FALSE]

StartSnapshotRun(rd, vm) ==
    [d |-> rd, vm |-> vm, calls |-> <<>>, err |-> FALSE]

CreatedSnapshot == "snapshot-2"

\* a started task goes on in the remote system unless it ends in an error
TaskRan(outcome, wait) == outcome[wait] # "error"

\* a variant that starts and awaits the task again after a failed wait
resourceVSphereVirtualMachineSnapshotCreate_Retry(run, outcome) ==
    LET create == <<"CreateSnapshot", Get(run.d, "snapshot_name"), Get(run.d, "description"),
                    Get(run.d, "memory"), Get(run.d, "quiesce")>>
    IN  IF outcome["FromUUID"] # "ok"
        THEN [run EXCEPT !.calls = <<<<"FromUUID">>>>, !.err = TRUE]
        ELSE IF outcome["CreateSnapshot"] # "ok"
        THEN [run EXCEPT !.calls = <<<<"FromUUID">>, create>>, !.err = TRUE]
        ELSE IF outcome["WaitForResultEx"] # "ok"
        THEN [run EXCEPT !.calls = <<<<"FromUUID">>, create, <<"WaitForResultEx">>,
                                     create, <<"WaitForResultEx">>>>,
                         !.vm.snapshots = IF TaskRan(outcome, "WaitForResultEx")
                                          THEN @ \cup {CreatedSnapshot} ELSE @,
                         !.err = TRUE]
        ELSE [run EXCEPT !.calls = <<<<"FromUUID">>, create, <<"WaitForResultEx">>>>,
                         !.vm.snapshots = @ \cup {CreatedSnapshot},
                         !.d = SetId(@, CreatedSnapshot)]

resourceVSphereVirtualMachineSnapshotCreate(run, outcome) ==
    LET create == <<"CreateSnapshot", Get(run.d, "snapshot_name"), Get(run.d, "description"),
                    Get(run.d, "memory"), Get(run.d, "quiesce")>>
    IN  IF outcome["FromUUID"] # "ok"
        THEN [run EXCEPT !.calls = <<<<"FromUUID">>>>, !.err = TRUE]
        ELSE IF outcome["CreateSnapshot"] # "ok"
        THEN [run EXCEPT !.calls = <<<<"FromUUID">>, create>>, !.err = TRUE]
        ELSE IF outcome["WaitForResultEx"] # "ok"
        THEN [run EXCEPT !.calls = <<<<"FromUUID">>, create, <<"WaitForResultEx">>>>,
                         !.vm.snapshots = IF TaskRan(outcome, "WaitForResultEx")
                                          THEN @ \cup {CreatedSnapshot} ELSE @,
                         !.err = TRUE]
        ELSE [run EXCEPT !.calls = <<<<"FromUUID">>, create, <<"WaitForResultEx">>>>,
                         !.vm.snapshots = @ \cup {CreatedSnapshot},
                         !.d = SetId(@, CreatedSnapshot)]

\* lines 104-118
RemoveOptions(rd) ==
    [consolidatePtr |-> IF GetOk(rd, "consolidate").ok
                        THEN Ptr(GetOk(rd, "consolidate").v) ELSE Ptr(TRUE),
     removeChildren |-> IF GetOk(rd, "remove_children").ok
                        THEN GetOk(rd, "remove_children").v ELSE FALSE]

resourceVSphereVirtualMachineSnapshotDelete(run, outcome) ==
    LET remove == <<"RemoveSnapshot", run.d.id, RemoveOptions(run.d).removeChildren,
                    RemoveOptions(run.d).consolidatePtr>>
    IN  IF outcome["FromUUID"] # "ok"
        THEN [run EXCEPT !.calls = <<<<"FromUUID">>>>, !.err = TRUE]
        ELSE IF run.d.id = ""
        THEN [run EXCEPT !.calls = <<<<"FromUUID">>>>]
        ELSE IF outcome["RemoveSnapshot"] # "ok"
        THEN [run EXCEPT !.calls = <<<<"FromUUID">>, remove>>, !.err = TRUE]
        ELSE [run EXCEPT !.calls = <<<<"FromUUID">>, remove, <<"WaitEx">>>>,
                         !.vm.snapshots = IF TaskRan(outcome, "WaitEx")
                                          THEN @ \ {run.d.id} ELSE @,
                         !.err = outcome["WaitEx"] # "ok"]

-----------------------------------------------------------------------------
(* SpecSnapshot: a create followed by a delete, or a delete of a recorded  *)
(* snapshot, under every outcome of the remote calls.  live is the virtual *)
(* machine's snapshots, client the outcomes, obj the run of the handler.   *)

RecordedSnapshot == "snapshot-1"

OptionalBool == {Nil, Ptr(FALSE), Ptr(TRUE)}

SnapshotConfigs ==
    [virtual_machine_uuid : {"uuid-1"}, snapshot_name : {"before-upgrade"},
     description : {"nightly"}, memory : BOOLEAN, quiesce : {FALSE},
     remove_children : OptionalBool, consolidate : OptionalBool]

SnapshotData(id, cfg) == [id |-> id, state |-> cfg, config |-> cfg, set |-> EmptyMap]

Outcomes ==
    {o \in [{"FromUUID", "CreateSnapshot", "WaitForResultEx", "RemoveSnapshot", "WaitEx"} ->
                {"ok", "error", "timeout"}] :
        /\ \A c \in {"FromUUID", "CreateSnapshot", "RemoveSnapshot"} : o[c] # "timeout"
        /\ Cardinality({c \in DOMAIN o : o[c] # "ok"}) <= 1}

InitSnapshot ==
    /\ \E id \in {"", RecordedSnapshot}, cfg \in SnapshotConfigs : d = SnapshotData(id, cfg)
    /\ d0 = d
    /\ client \in Outcomes
    /\ live = [snapshots |-> IF d.id = "" THEN {} ELSE {RecordedSnapshot}]
    /\ iter = NoIter
    /\ pc = "start"
    /\ obj = StartSnapshotRun(d, live)
    /\ res = NoRes

SnapshotReturn(run) ==
    /\ d' = run.d
    /\ live' = run.vm
    /\ obj' = run
    /\ res' = [res EXCEPT !.err = IF run.err THEN "error" ELSE ""]
    /\ UNCHANGED <<client, iter>>

SnapshotCreate ==
    /\ pc = "start"
    /\ d.id = ""
    /\ \E run \in {resourceVSphereVirtualMachineSnapshotCreate(StartSnapshotRun(d, live), client)} :
        SnapshotReturn(run)
    /\ pc' = "created"
    /\ d0' = d

\* Delete of a recorded snapshot, of one just created, or of a record
\* whose ID is empty
SnapshotDelete ==
    /\ \/ pc = "start"
       \/ pc = "created" /\ res.err = ""
    /\ \E run \in {resourceVSphereVirtualMachineSnapshotDelete(StartSnapshotRun(d, live), client)} :
        SnapshotReturn(run)
    /\ pc' = "deleted"
    /\ d0' = d

NextSnapshot == SnapshotCreate \/ SnapshotDelete

SpecSnapshot == InitSnapshot /\ [][NextSnapshot]_vars

CallCount(name) == Cardinality({i \in 1..Len(obj.calls) : obj.calls[i][1] = name})

Attempted(name) == CallCount(name) > 0

\* C23: snapshot create and delete start their task at most once and
\* await it at most once; when the start or the wait fails or times out
\* the operation returns an error, and create sets the ID only after a
\* successful wait.
C23_SnapshotNoRetry ==
    /\ \A name \in {"CreateSnapshot", "WaitForResultEx", "RemoveSnapshot", "WaitEx"} :
            CallCount(name) <= 1
    /\ pc = "created" =>
            /\ \A name \in {"CreateSnapshot", "WaitForResultEx"} :
                    (Attempted(name) /\ client[name] # "ok") => (res.err # "" /\ d.id = "")
            /\ d.id # "" => (Attempted("WaitForResultEx") /\ client["WaitForResultEx"] = "ok"
                             /\ res.err = "")
            /\ res.err = "" => d.id = CreatedSnapshot
    /\ pc = "deleted" =>
            \A name \in {"RemoveSnapshot", "WaitEx"} :
                (Attempted(name) /\ client[name] # "ok") => res.err # ""

C23_Witness ==
    /\ pc = "created"
    /\ client["WaitForResultEx"] = "timeout"
    /\ CallCount("CreateSnapshot") = 1
    /\ CallCount("WaitForResultEx") = 1
    /\ res.err # ""
    /\ d.id = ""

Configured(key) == d0.config[key]

RemoveCall == obj.calls[CHOOSE i \in 1..Len(obj.calls) : obj.calls[i][1] = "RemoveSnapshot"]

\* C30: delete passes to RemoveSnapshot the configured consolidate when it
\* is set and true when it is not, and the configured remove_children when
\* it is set and false when it is not; with an empty ID it issues no
\* removal and succeeds.
C30_SnapshotDeleteOptions ==
    pc = "deleted" =>
        /\ Attempted("RemoveSnapshot") =>
            /\ RemoveCall[4] = IF Configured("consolidate") = Nil THEN Ptr(TRUE)
                               ELSE Configured("consolidate")
            /\ RemoveCall[3] = IF Configured("remove_children") = Nil THEN FALSE
                               ELSE Deref(Configured("remove_children"))
        /\ d0.id = "" => (~Attempted("RemoveSnapshot") /\ res.err = "")

\* what the source keeps of C30: consolidate is passed as true whatever is
\* configured, remove_children as configured, and an empty ID issues no
\* removal and succeeds when the virtual machine is found
SnapshotDeleteOptionsByGetOk ==
    pc = "deleted" =>
        /\ Attempted("RemoveSnapshot") =>
            /\ RemoveCall[4] = Ptr(TRUE)
            /\ RemoveCall[3] = IF Configured("remove_children") = Nil THEN FALSE
                               ELSE Deref(Configured("remove_children"))
            /\ RemoveCall[2] = d0.id
        /\ d0.id = "" =>
            (~Attempted("RemoveSnapshot") /\ (res.err = "" <=> client["FromUUID"] = "ok"))

-----------------------------------------------------------------------------
(* Dynamic data source (src/vsphere/data_source_vsphere_dynamic.go).  A    *)
(* managed object is [Type, Value, Name]; attached maps a tag ID to the    *)
(* objects the tag is attached to.  A name_regex is its compiled form:     *)
(* whether it compiles, whether it is anchored, and the literal it holds.  *)

Regexp(valid, anchored, literal) ==
    [valid |-> valid, anchored |-> anchored, literal |-> literal]

\* re.Match: an unanchored expression matches anywhere in the name
Match(re, name) ==
    IF re.anchored THEN name = re.literal
    ELSE \E i \in 0..(Len(name) - Len(re.literal)) :
            SubSeq(name, i + 1, i + Len(re.literal)) = re.literal

\* lines 116-126
attachedObjectsIntersection(a, b) ==
    SelectSeq(a, LAMBDA aval : InList(b, aval))

RECURSIVE IntersectAll(_, _)
\* lines 106-108: matches[0] is intersected with every entry in turn
IntersectAll(matches, i) ==
    IF i > Len(matches) THEN matches
    ELSE IntersectAll([matches EXCEPT ![1] = attachedObjectsIntersection(matches[1], matches[i])],
                      i + 1)

\* tm.GetAttachedObjectsOnTags: one entry per tag ID asked for
GetAttachedObjectsOnTags(attached, tagIDs) ==
    [i \in 1..Len(tagIDs) |-> attached[tagIDs[i]]]

NoMatches == [matches |-> <<>>, err |-> FALSE, panic |-> FALSE]

filterObjectsByTag(attached, t, fail) ==
    IF "GetAttachedObjectsOnTags" \in fail THEN [NoMatches EXCEPT !.err = TRUE]
    ELSE LET matches == GetAttachedObjectsOnTags(attached, t)
         IN  \* matches[0] of an empty slice is an index out of range
             IF Len(matches) = 0 THEN [NoMatches EXCEPT !.panic = TRUE]
             ELSE IF Len(IntersectAll(matches, 1)[1]) < 1 THEN [NoMatches EXCEPT !.err = TRUE]
             ELSE [NoMatches EXCEPT !.matches = IntersectAll(matches, 1)]

RECURSIVE FilterNames(_, _, _, _, _)
\* lines 77-92
FilterNames(rd, ids, i, fail, filtered) ==
    IF i > Len(ids) THEN [filtered |-> filtered, err |-> FALSE]
    ELSE IF Get(rd, "type") # "" /\ ids[i].Type # Get(rd, "type")
    THEN FilterNames(rd, ids, i + 1, fail, filtered)
    ELSE IF "ObjectName" \in fail THEN [filtered |-> <<>>, err |-> TRUE]
    ELSE FilterNames(rd, ids, i + 1, fail,
            IF Match(Get(rd, "name_regex"), ids[i].Name)
            THEN Append(filtered, ids[i].Value) ELSE filtered)

filterObjectsByName(rd, matches, fail) ==
    IF ~Get(rd, "name_regex").valid THEN [filtered |-> <<>>, err |-> TRUE]
    ELSE FilterNames(rd, matches[1], 1, fail, <<>>)

dataSourceVSphereDynamicRead(rd, attached, order, fail) ==
    IF "TagsManager" \in fail THEN [d |-> rd, err |-> TRUE, panic |-> FALSE]
    ELSE Then(filterObjectsByTag(attached, ListOf(Get(rd, "filter"), order), fail), LAMBDA tagged :
        IF tagged.err \/ tagged.panic
        THEN [d |-> rd, err |-> tagged.err, panic |-> tagged.panic]
        ELSE Then(filterObjectsByName(rd, tagged.matches, fail), LAMBDA named :
            IF named.err \/ Len(named.filtered) < 1 \/ Len(named.filtered) > 1
            THEN [d |-> rd, err |-> TRUE, panic |-> FALSE]
            ELSE [d |-> SetId(rd, named.filtered[1]), err |-> FALSE, panic |-> FALSE]))

-----------------------------------------------------------------------------
(* SpecDynamic: one read of the data source over every filter, type and    *)
(* name_regex of the palette, every attachment of two tags to three        *)
(* objects and every failing remote call.  live is the inventory, client   *)
(* the failing calls, iter the order of schema.Set.List.                   *)

Web1 == [Type |-> "VirtualMachine", Value |-> "vm-1", Name |-> <<"w", "e", "b", "1">>]
Web2 == [Type |-> "VirtualMachine", Value |-> "vm-2", Name |-> <<"w", "e", "b", "2">>]
Db == [Type |-> "HostSystem", Value |-> "host-3", Name |-> <<"d", "b">>]

Inventory == <<Web1, Web2, Db>>

TagIDs == {"tag-a", "tag-b"}

TagOrders == {<<"tag-a", "tag-b">>, <<"tag-b", "tag-a">>}

ObjectLists == {SelectSeq(Inventory, LAMBDA o : o \in chosen) : chosen \in SUBSET {Web1, Web2, Db}}

NameRegexes ==
    {Regexp(TRUE, FALSE, <<>>),                 \* not set: matches every name
     Regexp(TRUE, FALSE, <<"w", "e", "b">>),    \* web
     Regexp(TRUE, TRUE, <<"w", "e", "b", "1">>),\* ^web1$
     Regexp(FALSE, FALSE, <<>>)}                \* does not compile

DynamicFailures == {{}, {"TagsManager"}, {"GetAttachedObjectsOnTags"}, {"ObjectName"}}

DynamicData(filter, re, type) ==
    [id |-> "",
     state |-> [filter |-> {}, name_regex |-> Regexp(TRUE, FALSE, <<>>), type |-> ""],
     config |-> [filter |-> filter, name_regex |-> re, type |-> type],
     set |-> EmptyMap]

InitDynamic ==
    /\ \E filter \in SUBSET TagIDs, re \in NameRegexes,
          type \in {"", "VirtualMachine", "HostSystem"} :
            d = DynamicData(filter, re, type)
    /\ d0 = d
    /\ client \in DynamicFailures
    /\ live \in [TagIDs -> ObjectLists]
    /\ iter \in TagOrders
    /\ pc = "start"
    /\ obj = NoObj
    /\ res = NoRes

DynamicRead ==
    /\ pc = "start"
    /\ \E r \in {dataSourceVSphereDynamicRead(d, live, iter, client)} :
        /\ d' = r.d
        /\ res' = [res EXCEPT !.err = IF r.err THEN "error" ELSE "", !.panic = r.panic]
    /\ pc' = "read"
    /\ UNCHANGED <<d0, client, live, iter, obj>>

NextDynamic == DynamicRead

SpecDynamic == InitDynamic /\ [][NextDynamic]_vars

\* x is attached to every tag of the filter, has the type asked for and a
\* name the expression matches
Qualifies(x) ==
    /\ \A t \in d0.config["filter"] : InList(live[t], x)
    /\ d0.config["type"] # "" => x.Type = d0.config["type"]
    /\ d0.config["name_regex"].valid
    /\ IF d0.config["name_regex"].anchored
       THEN x.Name = d0.config["name_regex"].literal
       ELSE \E i, j \in 0..Len(x.Name) :
                i <= j /\ [k \in 1..(j - i) |-> x.Name[i + k]] = d0.config["name_regex"].literal

Qualifying == {x \in {Web1, Web2, Db} : Qualifies(x)}

\* C28: the read does not crash; it sets the ID to an object only if that
\* object is the only one that qualifies; when no object or more than one
\* qualifies it returns an error and leaves the ID unset.
C28_UniqueMatch ==
    pc = "read" =>
        /\ ~res.panic
        /\ d.id # "" => \E x \in Qualifying : x.Value = d.id /\ Qualifying = {x}
        /\ Cardinality(Qualifying) # 1 => (res.err # "" /\ d.id = "")

\* what the source keeps of C28: the same for every filter that names at
\* least one tag, and a crash for the empty filter
UniqueMatchOfNonEmptyFilter ==
    pc = "read" =>
        /\ res.panic <=> (d0.config["filter"] = {} /\ client \cap {"TagsManager", "GetAttachedObjectsOnTags"} = {})
        /\ d.id # "" => \E x \in Qualifying : x.Value = d.id /\ Qualifying = {x}
        /\ (Cardinality(Qualifying) # 1 /\ ~res.panic) => (res.err # "" /\ d.id = "")

====
